---- MODULE Spec2Model ----
(***************************************************************************)
(* GPU sizing and recommendation engine of brev-launcher.                  *)
(*                                                                         *)
(* Units.  The Python code computes in floats; the model computes in exact *)
(* integers:                                                               *)
(*   - VRAM of a catalog entry: whole GiB (every catalog entry is whole);  *)
(*   - a VRAM requirement (estimated_vram_gb): tenths of a GB;             *)
(*   - a price, a saving, a cost: cents;                                   *)
(*   - cost_efficiency: hundredths.                                        *)
(* An Optional value is a sequence of length 0 (None) or 1.                *)
(***************************************************************************)
EXTENDS Integers, Sequences, FiniteSets, TLC

None ==
    <<>>

Some(x) ==
    <<x>>

(* BREV_INSTANCES, in source order. *)
BREV_INSTANCES ==
    <<
    [gpu_model |-> "B300", gpus |-> 1, vram_per_gpu_gib |-> 288, total_vram_gib |-> 288, provider |-> "DATACRUNCH", price_per_hour |-> 791, cost_efficiency |-> 3641],
    [gpu_model |-> "B300", gpus |-> 2, vram_per_gpu_gib |-> 288, total_vram_gib |-> 576, provider |-> "DATACRUNCH", price_per_hour |-> 1385, cost_efficiency |-> 4159],
    [gpu_model |-> "B300", gpus |-> 4, vram_per_gpu_gib |-> 288, total_vram_gib |-> 1152, provider |-> "DATACRUNCH", price_per_hour |-> 2573, cost_efficiency |-> 4477],
    [gpu_model |-> "B300", gpus |-> 8, vram_per_gpu_gib |-> 288, total_vram_gib |-> 2304, provider |-> "DATACRUNCH", price_per_hour |-> 4949, cost_efficiency |-> 4655],
    [gpu_model |-> "B200", gpus |-> 1, vram_per_gpu_gib |-> 180, total_vram_gib |-> 180, provider |-> "LAMBDA-LABS", price_per_hour |-> 635, cost_efficiency |-> 2835],
    [gpu_model |-> "B200", gpus |-> 1, vram_per_gpu_gib |-> 192, total_vram_gib |-> 192, provider |-> "DATACRUNCH", price_per_hour |-> 676, cost_efficiency |-> 2840],
    [gpu_model |-> "B200", gpus |-> 2, vram_per_gpu_gib |-> 192, total_vram_gib |-> 384, provider |-> "DATACRUNCH", price_per_hour |-> 1154, cost_efficiency |-> 3328],
    [gpu_model |-> "B200", gpus |-> 2, vram_per_gpu_gib |-> 180, total_vram_gib |-> 360, provider |-> "LAMBDA-LABS", price_per_hour |-> 1246, cost_efficiency |-> 2889],
    [gpu_model |-> "B200", gpus |-> 4, vram_per_gpu_gib |-> 192, total_vram_gib |-> 768, provider |-> "DATACRUNCH", price_per_hour |-> 2112, cost_efficiency |-> 3636],
    [gpu_model |-> "B200", gpus |-> 8, vram_per_gpu_gib |-> 192, total_vram_gib |-> 1536, provider |-> "BOOSTRUN", price_per_hour |-> 3840, cost_efficiency |-> 4000],
    [gpu_model |-> "B200", gpus |-> 8, vram_per_gpu_gib |-> 192, total_vram_gib |-> 1536, provider |-> "DATACRUNCH", price_per_hour |-> 4027, cost_efficiency |-> 3815],
    [gpu_model |-> "RTX PRO 6000", gpus |-> 1, vram_per_gpu_gib |-> 96, total_vram_gib |-> 96, provider |-> "MASSEDCOMPUTE", price_per_hour |-> 215, cost_efficiency |-> 4465],
    [gpu_model |-> "RTX PRO 6000", gpus |-> 2, vram_per_gpu_gib |-> 96, total_vram_gib |-> 192, provider |-> "MASSEDCOMPUTE", price_per_hour |-> 430, cost_efficiency |-> 4465],
    [gpu_model |-> "RTX PRO 6000", gpus |-> 4, vram_per_gpu_gib |-> 96, total_vram_gib |-> 384, provider |-> "MASSEDCOMPUTE", price_per_hour |-> 859, cost_efficiency |-> 4470],
    [gpu_model |-> "RTX PRO 6000", gpus |-> 8, vram_per_gpu_gib |-> 96, total_vram_gib |-> 768, provider |-> "BOOSTRUN", price_per_hour |-> 1162, cost_efficiency |-> 6609],
    [gpu_model |-> "RTX PRO 6000", gpus |-> 8, vram_per_gpu_gib |-> 96, total_vram_gib |-> 768, provider |-> "MASSEDCOMPUTE", price_per_hour |-> 1718, cost_efficiency |-> 4470],
    [gpu_model |-> "H200", gpus |-> 1, vram_per_gpu_gib |-> 141, total_vram_gib |-> 141, provider |-> "DIGITALOCEAN", price_per_hour |-> 413, cost_efficiency |-> 3414],
    [gpu_model |-> "H200", gpus |-> 1, vram_per_gpu_gib |-> 141, total_vram_gib |-> 141, provider |-> "DATACRUNCH", price_per_hour |-> 508, cost_efficiency |-> 2776],
    [gpu_model |-> "H200", gpus |-> 2, vram_per_gpu_gib |-> 141, total_vram_gib |-> 282, provider |-> "DATACRUNCH", price_per_hour |-> 818, cost_efficiency |-> 3447],
    [gpu_model |-> "H200", gpus |-> 4, vram_per_gpu_gib |-> 141, total_vram_gib |-> 564, provider |-> "DATACRUNCH", price_per_hour |-> 1440, cost_efficiency |-> 3917],
    [gpu_model |-> "H200", gpus |-> 8, vram_per_gpu_gib |-> 141, total_vram_gib |-> 1128, provider |-> "BOOSTRUN", price_per_hour |-> 2352, cost_efficiency |-> 4796],
    [gpu_model |-> "H200", gpus |-> 8, vram_per_gpu_gib |-> 141, total_vram_gib |-> 1128, provider |-> "DATACRUNCH", price_per_hour |-> 2683, cost_efficiency |-> 4205],
    [gpu_model |-> "H200", gpus |-> 8, vram_per_gpu_gib |-> 141, total_vram_gib |-> 1128, provider |-> "DIGITALOCEAN", price_per_hour |-> 3302, cost_efficiency |-> 3416],
    [gpu_model |-> "H100", gpus |-> 1, vram_per_gpu_gib |-> 80, total_vram_gib |-> 80, provider |-> "HYPERSTACK", price_per_hour |-> 228, cost_efficiency |-> 3509],
    [gpu_model |-> "H100", gpus |-> 1, vram_per_gpu_gib |-> 80, total_vram_gib |-> 80, provider |-> "VOLTAGEPARK", price_per_hour |-> 239, cost_efficiency |-> 3347],
    [gpu_model |-> "H100", gpus |-> 1, vram_per_gpu_gib |-> 80, total_vram_gib |-> 80, provider |-> "DATACRUNCH", price_per_hour |-> 271, cost_efficiency |-> 2952],
    [gpu_model |-> "H100", gpus |-> 1, vram_per_gpu_gib |-> 80, total_vram_gib |-> 80, provider |-> "IMWT", price_per_hour |-> 298, cost_efficiency |-> 2685],
    [gpu_model |-> "H100", gpus |-> 1, vram_per_gpu_gib |-> 80, total_vram_gib |-> 80, provider |-> "LAMBDA-LABS", price_per_hour |-> 299, cost_efficiency |-> 2676],
    [gpu_model |-> "H100", gpus |-> 1, vram_per_gpu_gib |-> 80, total_vram_gib |-> 80, provider |-> "CUDA", price_per_hour |-> 318, cost_efficiency |-> 2516],
    [gpu_model |-> "H100", gpus |-> 1, vram_per_gpu_gib |-> 80, total_vram_gib |-> 80, provider |-> "MASSEDCOMPUTE", price_per_hour |-> 358, cost_efficiency |-> 2235],
    [gpu_model |-> "H100", gpus |-> 1, vram_per_gpu_gib |-> 80, total_vram_gib |-> 80, provider |-> "SCALEWAY", price_per_hour |-> 370, cost_efficiency |-> 2162],
    [gpu_model |-> "H100", gpus |-> 1, vram_per_gpu_gib |-> 80, total_vram_gib |-> 80, provider |-> "DIGITALOCEAN", price_per_hour |-> 401, cost_efficiency |-> 1995],
    [gpu_model |-> "H100", gpus |-> 2, vram_per_gpu_gib |-> 80, total_vram_gib |-> 160, provider |-> "HYPERSTACK", price_per_hour |-> 456, cost_efficiency |-> 3509],
    [gpu_model |-> "H100", gpus |-> 2, vram_per_gpu_gib |-> 80, total_vram_gib |-> 160, provider |-> "VOLTAGEPARK", price_per_hour |-> 478, cost_efficiency |-> 3347],
    [gpu_model |-> "H100", gpus |-> 2, vram_per_gpu_gib |-> 80, total_vram_gib |-> 160, provider |-> "IMWT", price_per_hour |-> 595, cost_efficiency |-> 2689],
    [gpu_model |-> "H100", gpus |-> 2, vram_per_gpu_gib |-> 80, total_vram_gib |-> 160, provider |-> "MASSEDCOMPUTE", price_per_hour |-> 715, cost_efficiency |-> 2238],
    [gpu_model |-> "H100", gpus |-> 4, vram_per_gpu_gib |-> 80, total_vram_gib |-> 320, provider |-> "HYPERSTACK", price_per_hour |-> 912, cost_efficiency |-> 3509],
    [gpu_model |-> "H100", gpus |-> 4, vram_per_gpu_gib |-> 80, total_vram_gib |-> 320, provider |-> "VOLTAGEPARK", price_per_hour |-> 955, cost_efficiency |-> 3351],
    [gpu_model |-> "H100", gpus |-> 4, vram_per_gpu_gib |-> 80, total_vram_gib |-> 320, provider |-> "IMWT", price_per_hour |-> 1190, cost_efficiency |-> 2689],
    [gpu_model |-> "H100", gpus |-> 4, vram_per_gpu_gib |-> 80, total_vram_gib |-> 320, provider |-> "MASSEDCOMPUTE", price_per_hour |-> 1430, cost_efficiency |-> 2238],
    [gpu_model |-> "H100", gpus |-> 4, vram_per_gpu_gib |-> 80, total_vram_gib |-> 320, provider |-> "LAMBDA-LABS", price_per_hour |-> 1483, cost_efficiency |-> 2158],
    [gpu_model |-> "H100", gpus |-> 8, vram_per_gpu_gib |-> 80, total_vram_gib |-> 640, provider |-> "HYPERSTACK", price_per_hour |-> 1824, cost_efficiency |-> 3509],
    [gpu_model |-> "H100", gpus |-> 8, vram_per_gpu_gib |-> 80, total_vram_gib |-> 640, provider |-> "VOLTAGEPARK", price_per_hour |-> 1910, cost_efficiency |-> 3351],
    [gpu_model |-> "H100", gpus |-> 8, vram_per_gpu_gib |-> 80, total_vram_gib |-> 640, provider |-> "LAMBDA-LABS", price_per_hour |-> 2870, cost_efficiency |-> 2230],
    [gpu_model |-> "H100", gpus |-> 8, vram_per_gpu_gib |-> 80, total_vram_gib |-> 640, provider |-> "DIGITALOCEAN", price_per_hour |-> 2870, cost_efficiency |-> 2230],
    [gpu_model |-> "A100", gpus |-> 1, vram_per_gpu_gib |-> 80, total_vram_gib |-> 80, provider |-> "MASSEDCOMPUTE", price_per_hour |-> 144, cost_efficiency |-> 5556],
    [gpu_model |-> "A100", gpus |-> 1, vram_per_gpu_gib |-> 80, total_vram_gib |-> 80, provider |-> "JARVIS-LABS", price_per_hour |-> 149, cost_efficiency |-> 5369],
    [gpu_model |-> "A100", gpus |-> 1, vram_per_gpu_gib |-> 80, total_vram_gib |-> 80, provider |-> "LAMBDA-LABS", price_per_hour |-> 165, cost_efficiency |-> 4848],
    [gpu_model |-> "A100", gpus |-> 1, vram_per_gpu_gib |-> 80, total_vram_gib |-> 80, provider |-> "DATACRUNCH", price_per_hour |-> 179, cost_efficiency |-> 4469],
    [gpu_model |-> "A100", gpus |-> 1, vram_per_gpu_gib |-> 80, total_vram_gib |-> 80, provider |-> "VOLTAGEPARK", price_per_hour |-> 199, cost_efficiency |-> 4020],
    [gpu_model |-> "A100", gpus |-> 1, vram_per_gpu_gib |-> 40, total_vram_gib |-> 40, provider |-> "DENVI", price_per_hour |-> 150, cost_efficiency |-> 2667],
    [gpu_model |-> "A100", gpus |-> 1, vram_per_gpu_gib |-> 40, total_vram_gib |-> 40, provider |-> "LAMBDA-LABS", price_per_hour |-> 155, cost_efficiency |-> 2581],
    [gpu_model |-> "A100", gpus |-> 1, vram_per_gpu_gib |-> 40, total_vram_gib |-> 40, provider |-> "AWS", price_per_hour |-> 177, cost_efficiency |-> 2260],
    [gpu_model |-> "A100", gpus |-> 1, vram_per_gpu_gib |-> 40, total_vram_gib |-> 40, provider |-> "DATACRUNCH", price_per_hour |-> 189, cost_efficiency |-> 2116],
    [gpu_model |-> "A100", gpus |-> 2, vram_per_gpu_gib |-> 80, total_vram_gib |-> 160, provider |-> "MASSEDCOMPUTE", price_per_hour |-> 287, cost_efficiency |-> 5575],
    [gpu_model |-> "A100", gpus |-> 2, vram_per_gpu_gib |-> 80, total_vram_gib |-> 160, provider |-> "JARVIS-LABS", price_per_hour |-> 299, cost_efficiency |-> 5351],
    [gpu_model |-> "A100", gpus |-> 4, vram_per_gpu_gib |-> 80, total_vram_gib |-> 320, provider |-> "MASSEDCOMPUTE", price_per_hour |-> 575, cost_efficiency |-> 5565],
    [gpu_model |-> "A100", gpus |-> 8, vram_per_gpu_gib |-> 80, total_vram_gib |-> 640, provider |-> "MASSEDCOMPUTE", price_per_hour |-> 1150, cost_efficiency |-> 5565],
    [gpu_model |-> "L40S", gpus |-> 1, vram_per_gpu_gib |-> 48, total_vram_gib |-> 48, provider |-> "MASSEDCOMPUTE", price_per_hour |-> 119, cost_efficiency |-> 4034],
    [gpu_model |-> "L40S", gpus |-> 1, vram_per_gpu_gib |-> 48, total_vram_gib |-> 48, provider |-> "DATACRUNCH", price_per_hour |-> 129, cost_efficiency |-> 3721],
    [gpu_model |-> "L40S", gpus |-> 1, vram_per_gpu_gib |-> 48, total_vram_gib |-> 48, provider |-> "LAMBDA-LABS", price_per_hour |-> 150, cost_efficiency |-> 3200],
    [gpu_model |-> "L40S", gpus |-> 2, vram_per_gpu_gib |-> 48, total_vram_gib |-> 96, provider |-> "MASSEDCOMPUTE", price_per_hour |-> 239, cost_efficiency |-> 4017],
    [gpu_model |-> "L40S", gpus |-> 4, vram_per_gpu_gib |-> 48, total_vram_gib |-> 192, provider |-> "MASSEDCOMPUTE", price_per_hour |-> 477, cost_efficiency |-> 4025],
    [gpu_model |-> "L40S", gpus |-> 8, vram_per_gpu_gib |-> 48, total_vram_gib |-> 384, provider |-> "MASSEDCOMPUTE", price_per_hour |-> 954, cost_efficiency |-> 4025],
    [gpu_model |-> "A10", gpus |-> 1, vram_per_gpu_gib |-> 24, total_vram_gib |-> 24, provider |-> "MASSEDCOMPUTE", price_per_hour |-> 65, cost_efficiency |-> 3692],
    [gpu_model |-> "A10", gpus |-> 1, vram_per_gpu_gib |-> 24, total_vram_gib |-> 24, provider |-> "AWS", price_per_hour |-> 77, cost_efficiency |-> 3117],
    [gpu_model |-> "A10", gpus |-> 1, vram_per_gpu_gib |-> 24, total_vram_gib |-> 24, provider |-> "LAMBDA-LABS", price_per_hour |-> 90, cost_efficiency |-> 2667],
    [gpu_model |-> "A10", gpus |-> 2, vram_per_gpu_gib |-> 24, total_vram_gib |-> 48, provider |-> "MASSEDCOMPUTE", price_per_hour |-> 129, cost_efficiency |-> 3721],
    [gpu_model |-> "A10", gpus |-> 4, vram_per_gpu_gib |-> 24, total_vram_gib |-> 96, provider |-> "MASSEDCOMPUTE", price_per_hour |-> 259, cost_efficiency |-> 3707],
    [gpu_model |-> "A10", gpus |-> 8, vram_per_gpu_gib |-> 24, total_vram_gib |-> 192, provider |-> "MASSEDCOMPUTE", price_per_hour |-> 518, cost_efficiency |-> 3707],
    [gpu_model |-> "RTX 4090", gpus |-> 1, vram_per_gpu_gib |-> 24, total_vram_gib |-> 24, provider |-> "MASSEDCOMPUTE", price_per_hour |-> 59, cost_efficiency |-> 4068],
    [gpu_model |-> "RTX 4090", gpus |-> 1, vram_per_gpu_gib |-> 24, total_vram_gib |-> 24, provider |-> "JARVIS-LABS", price_per_hour |-> 69, cost_efficiency |-> 3478],
    [gpu_model |-> "RTX 4090", gpus |-> 2, vram_per_gpu_gib |-> 24, total_vram_gib |-> 48, provider |-> "MASSEDCOMPUTE", price_per_hour |-> 119, cost_efficiency |-> 4034],
    [gpu_model |-> "RTX 4090", gpus |-> 4, vram_per_gpu_gib |-> 24, total_vram_gib |-> 96, provider |-> "MASSEDCOMPUTE", price_per_hour |-> 238, cost_efficiency |-> 4034],
    [gpu_model |-> "RTX 4090", gpus |-> 8, vram_per_gpu_gib |-> 24, total_vram_gib |-> 192, provider |-> "MASSEDCOMPUTE", price_per_hour |-> 476, cost_efficiency |-> 4034],
    [gpu_model |-> "RTX A6000", gpus |-> 1, vram_per_gpu_gib |-> 48, total_vram_gib |-> 48, provider |-> "MASSEDCOMPUTE", price_per_hour |-> 89, cost_efficiency |-> 5393],
    [gpu_model |-> "RTX A6000", gpus |-> 1, vram_per_gpu_gib |-> 48, total_vram_gib |-> 48, provider |-> "AWS", price_per_hour |-> 139, cost_efficiency |-> 3453],
    [gpu_model |-> "RTX A6000", gpus |-> 2, vram_per_gpu_gib |-> 48, total_vram_gib |-> 96, provider |-> "MASSEDCOMPUTE", price_per_hour |-> 179, cost_efficiency |-> 5363],
    [gpu_model |-> "RTX A6000", gpus |-> 4, vram_per_gpu_gib |-> 48, total_vram_gib |-> 192, provider |-> "MASSEDCOMPUTE", price_per_hour |-> 358, cost_efficiency |-> 5363],
    [gpu_model |-> "T4", gpus |-> 1, vram_per_gpu_gib |-> 16, total_vram_gib |-> 16, provider |-> "AWS", price_per_hour |-> 40, cost_efficiency |-> 4000],
    [gpu_model |-> "T4", gpus |-> 1, vram_per_gpu_gib |-> 16, total_vram_gib |-> 16, provider |-> "GCP", price_per_hour |-> 42, cost_efficiency |-> 3810],
    [gpu_model |-> "T4", gpus |-> 2, vram_per_gpu_gib |-> 16, total_vram_gib |-> 32, provider |-> "AWS", price_per_hour |-> 80, cost_efficiency |-> 4000],
    [gpu_model |-> "T4", gpus |-> 4, vram_per_gpu_gib |-> 16, total_vram_gib |-> 64, provider |-> "AWS", price_per_hour |-> 160, cost_efficiency |-> 4000],
    [gpu_model |-> "V100", gpus |-> 1, vram_per_gpu_gib |-> 16, total_vram_gib |-> 16, provider |-> "MASSEDCOMPUTE", price_per_hour |-> 89, cost_efficiency |-> 1798],
    [gpu_model |-> "V100", gpus |-> 1, vram_per_gpu_gib |-> 32, total_vram_gib |-> 32, provider |-> "AWS", price_per_hour |-> 150, cost_efficiency |-> 2133],
    [gpu_model |-> "V100", gpus |-> 2, vram_per_gpu_gib |-> 16, total_vram_gib |-> 32, provider |-> "MASSEDCOMPUTE", price_per_hour |-> 179, cost_efficiency |-> 1788]
    >>

(* GPU_PRICING, in dict insertion order (the order .items() iterates). *)
GPU_PRICING ==
    <<
    [gpu_id |-> "gpu_1x_t4", name |-> "T4", vram_gb |-> 16, cost_per_hour |-> 40, good_for |-> "Small models, inference, cost-sensitive workloads",
     compute_score |-> 60],
    [gpu_id |-> "gpu_1x_a10", name |-> "A10", vram_gb |-> 24, cost_per_hour |-> 90, good_for |-> "Medium models, training, balanced performance",
     compute_score |-> 100],
    [gpu_id |-> "gpu_1x_v100", name |-> "V100", vram_gb |-> 16, cost_per_hour |-> 150, good_for |-> "Legacy workloads, specific library requirements",
     compute_score |-> 80],
    [gpu_id |-> "gpu_1x_a100", name |-> "A100", vram_gb |-> 40, cost_per_hour |-> 250, good_for |-> "Large models, fast training, production workloads",
     compute_score |-> 200],
    [gpu_id |-> "gpu_1x_a100_80gb", name |-> "A100 80GB", vram_gb |-> 80, cost_per_hour |-> 300, good_for |-> "Very large models, massive batch sizes",
     compute_score |-> 220],
    [gpu_id |-> "gpu_1x_h100", name |-> "H100", vram_gb |-> 80, cost_per_hour |-> 400, good_for |-> "Cutting-edge research, fastest training",
     compute_score |-> 300],
    [gpu_id |-> "any", name |-> "Any GPU", vram_gb |-> 16, cost_per_hour |-> 60, good_for |-> "Flexible, Brev will assign available GPU",
     compute_score |-> 70]
    >>

(* Default of the hours_per_day parameter of the two cost functions. *)
DefaultHoursPerDay ==
    24

(* ----------------------------- bounds ---------------------------------- *)

(* Largest max_results passed to recommend_gpu_advanced. *)
MaxResults ==
    3

(* Requirements are taken within MaxDelta tenths of a GB of each value at  *)
(* which a catalog entry's VRAM meets the buffered requirement exactly.    *)
MaxDelta ==
    1

(* Largest number of .py files in a scanned project. *)
MaxPyFiles ==
    2

(* ------------------------- pricing.py ---------------------------------- *)

calculate_monthly_cost(hourly_cost, hours_per_day) ==
    hourly_cost * hours_per_day * 30

calculate_yearly_cost_360(hourly_cost, hours_per_day) ==
    hourly_cost * hours_per_day * 360

calculate_yearly_cost(hourly_cost, hours_per_day) ==
    hourly_cost * hours_per_day * 365

(* Python's < on two tuples of numbers of the same length. *)
TupleLess(a, b) ==
    \E k \in 1..Len(a) :
        /\ a[k] < b[k]
        /\ \A j \in 1..(k - 1) : a[j] = b[j]

(* A function on 1..n as a list value. *)
AsList(f) ==
    SubSeq(f, 1, Len(f))

(* list.sort(key=...) is a stable sort: element i goes before element j    *)
(* when its key is smaller, or when the keys are equal and i < j.          *)
(* RankByKey(keys)[i] is the position of element i in the sorted list.     *)
RankByKey(keys) ==
    AsList([i \in 1..Len(keys) |->
               1 + Cardinality({j \in 1..Len(keys) :
                                   \/ TupleLess(keys[j], keys[i])
                                   \/ (keys[j] = keys[i] /\ j < i)})])

(* s sorted by the keys given in the list keys (keys[i] is the key of s[i]). *)
SortedByKey(s, keys) ==
    LET rank == RankByKey(keys)
    IN  AsList([k \in 1..Len(s) |-> s[CHOOSE i \in 1..Len(s) : rank[i] = k]])

(* The entry of GPU_PRICING under the key gpu_id. *)
GpuInfo(pricing, gpu_id) ==
    pricing[CHOOSE k \in 1..Len(pricing) : pricing[k].gpu_id = gpu_id]

GpuIds(pricing) ==
    {pricing[k].gpu_id : k \in 1..Len(pricing)}

(* compute_score / cost_per_hour (score per dollar), truncated to          *)
(* hundredths; nothing in the code reads it.                               *)
GpuCostEfficiency(info) ==
    (info.compute_score * 10000) \div info.cost_per_hour

(* The filter loop of recommend_gpu.  required_vram = estimated_vram_gb *  *)
(* 1.2; with the estimate in tenths of a GB it is estimated_vram_gb * 12   *)
(* hundredths of a GB.                                                     *)
SuitableGpusStrict(pricing, estimated_vram_gb) ==
    LET fitting == SelectSeq(pricing,
                       LAMBDA info :
                           /\ info.gpu_id # "any"
                           /\ info.vram_gb * 100 > estimated_vram_gb * 12)
    IN  AsList([k \in 1..Len(fitting) |->
                   [gpu_id |-> fitting[k].gpu_id,
                    info |-> fitting[k],
                    cost_efficiency |-> GpuCostEfficiency(fitting[k])]])

SuitableGpus(pricing, estimated_vram_gb) ==
    LET fitting == SelectSeq(pricing,
                       LAMBDA info :
                           /\ info.gpu_id # "any"
                           /\ info.vram_gb * 100 >= estimated_vram_gb * 12)
    IN  AsList([k \in 1..Len(fitting) |->
                   [gpu_id |-> fitting[k].gpu_id,
                    info |-> fitting[k],
                    cost_efficiency |-> GpuCostEfficiency(fitting[k])]])

SortGpus(s) ==
    SortedByKey(s, AsList([k \in 1..Len(s) |-> <<s[k].info.cost_per_hour>>]))

(* if current_gpu and current_gpu in GPU_PRICING: ... *)
GpuSavings(pricing, current_gpu, recommended) ==
    IF current_gpu # None /\ current_gpu[1] # "" /\ current_gpu[1] \in GpuIds(pricing)
    THEN LET current_cost == GpuInfo(pricing, current_gpu[1]).cost_per_hour
             recommended_cost == recommended.info.cost_per_hour
         IN  Some([hourly |-> current_cost - recommended_cost,
                   monthly |-> calculate_monthly_cost(current_cost - recommended_cost,
                                                      DefaultHoursPerDay),
                   yearly |-> calculate_yearly_cost(current_cost - recommended_cost,
                                                    DefaultHoursPerDay)])
    ELSE None

recommend_gpu(pricing, estimated_vram_gb, current_gpu) ==
    LET suitable_gpus == SortGpus(SuitableGpus(pricing, estimated_vram_gb))
    IN  IF suitable_gpus = <<>>
        THEN [recommended |-> None,
              reason |-> "No GPU large enough for requirements"]
        ELSE LET recommended == suitable_gpus[1]
             IN  [recommended |-> Some(recommended.gpu_id),
                  info |-> recommended.info,
                  savings |-> GpuSavings(pricing, current_gpu, recommended),
                  all_options |-> suitable_gpus]

(* ---------------------- pricing_advanced.py ---------------------------- *)

SuitableInstancesReversed(instances, estimated_vram_gb) ==
    SelectSeq(instances,
              LAMBDA instance :
                  instance.total_vram_gib * 100 <= estimated_vram_gb * 12)

(* The filter loop of recommend_gpu_advanced; required_vram as above. *)
SuitableInstancesNoBuffer(instances, estimated_vram_gb) ==
    SelectSeq(instances,
              LAMBDA instance :
                  instance.total_vram_gib * 100 >= estimated_vram_gb * 10)

SuitableInstancesStrict(instances, estimated_vram_gb) ==
    SelectSeq(instances,
              LAMBDA instance :
                  instance.total_vram_gib * 100 > estimated_vram_gb * 12)

SuitableInstances(instances, estimated_vram_gb) ==
    SelectSeq(instances,
              LAMBDA instance :
                  instance.total_vram_gib * 100 >= estimated_vram_gb * 12)

InstanceSortKeyAscending(x) ==
    <<x.price_per_hour, x.cost_efficiency>>

InstanceSortKey(x) ==
    <<x.price_per_hour, 0 - x.cost_efficiency>>

SortInstances(s) ==
    SortedByKey(s, AsList([k \in 1..Len(s) |-> InstanceSortKey(s[k])]))

(* if current_price: ... ; None and 0.0 are both falsy. *)
AdvancedSavings(current_price, recommended) ==
    IF current_price # None /\ current_price[1] # 0
    THEN LET savings_per_hour == current_price[1] - recommended.price_per_hour
         IN  Some([hourly |-> savings_per_hour,
                   monthly |-> calculate_monthly_cost(savings_per_hour, DefaultHoursPerDay),
                   yearly |-> calculate_yearly_cost(savings_per_hour, DefaultHoursPerDay)])
    ELSE None

ConfigKey(instance) ==
    <<instance.gpu_model, instance.gpus, instance.vram_per_gpu_gib>>

(* The loop over suitable_instances[1:]: rest is what is left to visit.    *)
RECURSIVE CollectAlternativesNoDedup(_, _, _, _)
CollectAlternativesNoDedup(rest, seen_configs, alternatives, max_results) ==
    IF rest = <<>>
    THEN alternatives
    ELSE LET appended == Append(alternatives, Head(rest))
         IN  IF Len(appended) >= max_results
             THEN appended
             ELSE CollectAlternativesNoDedup(Tail(rest), seen_configs,
                                             appended, max_results)

RECURSIVE CollectAlternatives(_, _, _, _)
CollectAlternatives(rest, seen_configs, alternatives, max_results) ==
    IF rest = <<>>
    THEN alternatives
    ELSE LET instance == Head(rest)
             config_key == ConfigKey(instance)
         IN  IF config_key \in seen_configs
             THEN CollectAlternatives(Tail(rest), seen_configs,
                                      alternatives, max_results)
             ELSE LET appended == Append(alternatives, instance)
                  IN  IF Len(appended) >= max_results
                      THEN appended
                      ELSE CollectAlternatives(Tail(rest),
                                               seen_configs \cup {config_key},
                                               appended, max_results)

NoSuitableInstance ==
    [recommended |-> None,
     reason |-> "No GPU configuration large enough for requirements",
     alternatives |-> <<>>]

(* current_gpu is a parameter the function never reads. *)
recommend_gpu_advanced(instances, estimated_vram_gb, current_price, max_results) ==
    LET suitable_instances == SortInstances(SuitableInstances(instances, estimated_vram_gb))
    IN  IF suitable_instances = <<>>
        THEN NoSuitableInstance
        ELSE LET recommended == suitable_instances[1]
             IN  [recommended |-> Some(recommended),
                  savings |-> AdvancedSavings(current_price, recommended),
                  alternatives |-> CollectAlternatives(Tail(suitable_instances), {},
                                                       <<>>, max_results),
                  total_options |-> Len(suitable_instances)]

(* ------------------------------ cli.py ---------------------------------- *)

(* f"{x:.0f}" of an amount in cents: the nearest whole dollar, ties to the *)
(* even one.                                                               *)
FormatDollars(cents) ==
    LET q == cents \div 100
        r == cents % 100
    IN  IF r < 50 THEN q
        ELSE IF r > 50 THEN q + 1
        ELSE IF q % 2 = 0 THEN q ELSE q + 1

Abs(x) ==
    IF x < 0 THEN 0 - x ELSE x

(* One row of the comparison table of cost_estimate. *)
ComparisonRow(info, current_gpu, current_info, estimated_vram, hours_per_day) ==
    LET monthly == calculate_monthly_cost(info.cost_per_hour, hours_per_day)
        yearly == calculate_yearly_cost(info.cost_per_hour, hours_per_day)
        current_monthly == calculate_monthly_cost(current_info.cost_per_hour,
                                                  hours_per_day)
        savings_monthly == current_monthly - monthly
        fits == info.vram_gb * 100 >= estimated_vram * 9
    IN  [name |-> info.name,
         vram_gb |-> info.vram_gb,
         cost_per_hour |-> info.cost_per_hour,
         monthly |-> FormatDollars(monthly),
         yearly |-> FormatDollars(yearly),
         vs_current |-> IF info.gpu_id = current_gpu THEN [mark |-> "current", dollars |-> 0]
                        ELSE IF savings_monthly > 0
                             THEN [mark |-> "plus", dollars |-> FormatDollars(savings_monthly)]
                        ELSE IF savings_monthly < 0
                             THEN [mark |-> "minus", dollars |-> FormatDollars(Abs(savings_monthly))]
                        ELSE [mark |-> "zero", dollars |-> 0],
         status |-> IF info.gpu_id = current_gpu THEN "Current"
                    ELSE IF ~fits THEN "Too small"
                    ELSE IF savings_monthly > 0 THEN "Cheaper"
                    ELSE IF savings_monthly < 0 THEN "Pricier"
                    ELSE "Same"]

(* The rows in the order printed: sorted by cost_per_hour, "any" skipped. *)
ComparisonTable(pricing, current_gpu, current_info, estimated_vram, hours_per_day) ==
    LET by_cost == SortedByKey(pricing,
                       AsList([k \in 1..Len(pricing) |-> <<pricing[k].cost_per_hour>>]))
        printed == SelectSeq(by_cost, LAMBDA info : info.gpu_id # "any")
    IN  AsList([k \in 1..Len(printed) |->
                   ComparisonRow(printed[k], current_gpu, current_info,
                                 estimated_vram, hours_per_day)])

(* What cost_estimate prints.  scan_gpu_type is scan.brev.gpu_type, or     *)
(* None when scan_project raised GitError; estimated is the return value   *)
(* of estimate_vram_usage.                                                 *)
cost_estimate(pricing, scan_gpu_type, estimated, hours_per_day) ==
    LET current_gpu == IF scan_gpu_type # None /\ scan_gpu_type[1] # ""
                       THEN scan_gpu_type[1]
                       ELSE "gpu_1x_a10"
        current_info == IF current_gpu \in GpuIds(pricing)
                        THEN GpuInfo(pricing, current_gpu)
                        ELSE GpuInfo(pricing, "gpu_1x_a10")
        estimated_vram == IF estimated # None /\ estimated[1] # 0
                          THEN estimated[1]
                          ELSE 80
        recommendation == recommend_gpu(pricing, estimated_vram, Some(current_gpu))
    IN  [current |-> [name |-> current_info.name,
                      vram_gb |-> current_info.vram_gb,
                      cost_per_hour |-> current_info.cost_per_hour,
                      monthly |-> FormatDollars(calculate_monthly_cost(
                                      current_info.cost_per_hour, hours_per_day)),
                      yearly |-> FormatDollars(calculate_yearly_cost(
                                     current_info.cost_per_hour, hours_per_day))],
         estimated_vram |-> estimated_vram,
         table |-> ComparisonTable(pricing, current_gpu, current_info,
                                   estimated_vram, hours_per_day),
         outcome |-> IF recommendation.recommended # None
                        /\ recommendation.recommended[1] # current_gpu
                     THEN IF recommendation.savings = None
                          THEN "TypeError"
                          ELSE "switch"
                     ELSE IF recommendation.recommended = Some(current_gpu)
                          THEN "optimal"
                          ELSE "larger",
         switch_to |-> IF recommendation.recommended # None
                          /\ recommendation.recommended[1] # current_gpu
                          /\ recommendation.savings # None
                       THEN Some([name |-> recommendation.info.name,
                                  vram_gb |-> recommendation.info.vram_gb,
                                  savings_monthly |->
                                      FormatDollars(recommendation.savings[1].monthly),
                                  savings_yearly |->
                                      FormatDollars(recommendation.savings[1].yearly),
                                  good_for |-> recommendation.info.good_for])
                       ELSE None]

(* --------------------------- detect.py ---------------------------------- *)

(* The values detect_current_gpu returns. *)
DetectedGpuTypes ==
    {"gpu_1x_a10", "gpu_1x_a100_80gb", "gpu_1x_a100", "gpu_1x_t4",
     "gpu_1x_v100", "gpu_1x_h100", "any"}

(* The baseline VRAM figures of model_patterns and of the generic          *)
(* framework fallback, in tenths of a GB.                                  *)
ModelBaselines ==
    {20, 40, 140, 260, 1400, 900, 60, 120, 80, 100, 50, 10, 30, 15, 110}

(* round(max_vram * 1.5, 1), in tenths of a GB: ties go to the even tenth. *)
EstimatedVram(max_vram) ==
    LET q == (max_vram * 15) \div 10
        r == (max_vram * 15) % 10
    IN  IF r < 5 THEN q
        ELSE IF r > 5 THEN q + 1
        ELSE IF q % 2 = 0 THEN q ELSE q + 1

(* model_patterns, in dict order; vram in tenths of a GB. *)
ModelPatterns ==
    <<
    [pattern |-> "gpt-?2|gpt2", model |-> "GPT-2", vram |-> 20],
    [pattern |-> "gpt-?3\\.5|gpt3", model |-> "GPT-3.5", vram |-> 40],
    [pattern |-> "llama.*7b|7b.*model|7b.*llm", model |-> "LLaMA 7B", vram |-> 140],
    [pattern |-> "llama.*13b|13b.*model", model |-> "LLaMA 13B", vram |-> 260],
    [pattern |-> "llama.*70b|70b.*model", model |-> "LLaMA 70B", vram |-> 1400],
    [pattern |-> "mistral.*7b", model |-> "Mistral 7B", vram |-> 140],
    [pattern |-> "mixtral.*8x7b", model |-> "Mixtral 8x7B", vram |-> 900],
    [pattern |-> "stable.*diffusion.*1\\.5|sd.*1\\.5|runwayml", model |-> "Stable Diffusion 1.5", vram |-> 60],
    [pattern |-> "stable.*diffusion.*xl|sdxl", model |-> "Stable Diffusion XL", vram |-> 120],
    [pattern |-> "stable.*diffusion.*2|sd.*2\\.", model |-> "Stable Diffusion 2", vram |-> 80],
    [pattern |-> "whisper.*large", model |-> "Whisper Large", vram |-> 100],
    [pattern |-> "whisper.*medium", model |-> "Whisper Medium", vram |-> 50],
    [pattern |-> "whisper.*small", model |-> "Whisper Small", vram |-> 20],
    [pattern |-> "whisper.*base", model |-> "Whisper Base", vram |-> 10],
    [pattern |-> "bert.*large", model |-> "BERT Large", vram |-> 30],
    [pattern |-> "bert.*base", model |-> "BERT Base", vram |-> 15],
    [pattern |-> "t5.*large", model |-> "T5 Large", vram |-> 30],
    [pattern |-> "t5.*xl", model |-> "T5 XL", vram |-> 110],
    [pattern |-> "yolo.*v8", model |-> "YOLOv8", vram |-> 20],
    [pattern |-> "sam|segment.*anything", model |-> "Segment Anything (SAM)", vram |-> 60]
    >>

(* File content is a set of lines; these are the lines used.  str.lower()  *)
(* of each:                                                                *)
Lower(line) ==
    CASE line = "import torch" -> "import torch"
      [] line = "from diffusers import StableDiffusionPipeline" -> "from diffusers import stablediffusionpipeline"
      [] line = "# Stable Diffusion 1.5 demo" -> "# stable diffusion 1.5 demo"
      [] line = "from transformers import pipeline" -> "from transformers import pipeline"
      [] line = "MODEL = 'meta-llama/Llama-2-7b-hf'" -> "model = 'meta-llama/llama-2-7b-hf'"
      [] line = "print('hello')" -> "print('hello')"
      [] line = "torch==2.1.0" -> "torch==2.1.0"
      [] line = "jax[cuda]" -> "jax[cuda]"
      [] line = "diffusers" -> "diffusers"
      [] line = "flask" -> "flask"
      [] line = "openai-whisper  # Whisper large-v3" -> "openai-whisper  # whisper large-v3"
      [] line = "dependencies = [\"torch\"]" -> "dependencies = [\"torch\"]"
      [] line = "name = \"demo\"" -> "name = \"demo\""
      [] line = "description = \"SDXL demo\"" -> "description = \"sdxl demo\""

(* re.search(pattern, line) on the lowered lines above: the pairs that     *)
(* match.  No pattern matches across a line break.                         *)
SearchHits ==
    {<<"llama.*7b|7b.*model|7b.*llm", "model = 'meta-llama/llama-2-7b-hf'">>,
     <<"stable.*diffusion.*1\\.5|sd.*1\\.5|runwayml", "# stable diffusion 1.5 demo">>,
     <<"stable.*diffusion.*xl|sdxl", "description = \"sdxl demo\"">>,
     <<"whisper.*large", "openai-whisper  # whisper large-v3">>}

(* needle in line, for the framework markers and the lowered lines above.  *)
SubstringHits ==
    {<<"import torch", "import torch">>,
     <<"from diffusers", "from diffusers import stablediffusionpipeline">>,
     <<"from transformers", "from transformers import pipeline">>,
     <<"torch", "import torch">>,
     <<"torch", "torch==2.1.0">>,
     <<"torch", "dependencies = [\"torch\"]">>,
     <<"diffusers", "from diffusers import stablediffusionpipeline">>,
     <<"diffusers", "diffusers">>,
     <<"transformers", "from transformers import pipeline">>,
     <<"jax", "jax[cuda]">>}

LowerContent(content) ==
    {Lower(line) : line \in content}

re_search(pattern, content) ==
    \E line \in content : <<pattern, line>> \in SearchHits

Contains(needle, content) ==
    \E line \in content : <<needle, line>> \in SubstringHits

(* py_file.name.startswith(".") *)
StartsWithDot(name) ==
    name \in {".scratch.py"}

(* The detections one file adds, in the order of model_patterns. *)
Detections(content, file) ==
    LET hits == SelectSeq(ModelPatterns, LAMBDA p : re_search(p.pattern, content))
    IN  AsList([k \in 1..Len(hits) |->
                   [model |-> hits[k].model, vram |-> hits[k].vram, file |-> file]])

RECURSIVE MaxVramLast(_, _)
MaxVramLast(max_vram, detections) ==
    IF detections = <<>>
    THEN max_vram
    ELSE MaxVramLast(Head(detections).vram, Tail(detections))

RECURSIVE MaxVram(_, _)
MaxVram(max_vram, detections) ==
    IF detections = <<>>
    THEN max_vram
    ELSE MaxVram(IF Head(detections).vram > max_vram
                 THEN Head(detections).vram
                 ELSE max_vram,
                 Tail(detections))

(* The frameworks a .py file adds. *)
SourceFrameworks(content) ==
    {fw \in {"PyTorch", "TensorFlow", "JAX", "Diffusers", "Transformers"} :
        \/ fw = "PyTorch"
             /\ (Contains("import torch", content) \/ Contains("from torch", content))
        \/ fw = "TensorFlow"
             /\ (Contains("import tensorflow", content)
                    \/ Contains("from tensorflow", content))
        \/ fw = "JAX"
             /\ (Contains("import jax", content) \/ Contains("from jax", content))
        \/ fw = "Diffusers"
             /\ (Contains("from diffusers", content)
                    \/ Contains("import diffusers", content))
        \/ fw = "Transformers"
             /\ (Contains("import transformers", content)
                    \/ Contains("from transformers", content))}

(* The frameworks requirements.txt adds. *)
RequirementsFrameworks(content) ==
    {fw \in {"PyTorch", "TensorFlow", "Diffusers", "Transformers"} :
        \/ fw = "PyTorch" /\ Contains("torch", content)
        \/ fw = "TensorFlow" /\ Contains("tensorflow", content)
        \/ fw = "Diffusers" /\ Contains("diffusers", content)
        \/ fw = "Transformers" /\ Contains("transformers", content)}

(* One iteration of the loop over path.rglob("*.py"); scan is the triple   *)
(* detected_models, max_vram, frameworks.  read_text raising is caught and *)
(* the file skipped.                                                       *)
ScanPyFile(scan, py_file) ==
    IF StartsWithDot(py_file.name) \/ ~py_file.readable
    THEN scan
    ELSE LET content == LowerContent(py_file.content)
             found == Detections(content, py_file.name)
         IN  [detected_models |-> scan.detected_models \o found,
              max_vram |-> MaxVram(scan.max_vram, found),
              frameworks |-> scan.frameworks \cup SourceFrameworks(content)]

RECURSIVE ScanPyFiles(_, _)
ScanPyFiles(scan, py_files) ==
    IF py_files = <<>>
    THEN scan
    ELSE ScanPyFiles(ScanPyFile(scan, Head(py_files)), Tail(py_files))

(* A manifest is None when the file does not exist. *)
ScanRequirements(scan, req_file) ==
    IF req_file = None \/ ~req_file[1].readable
    THEN scan
    ELSE LET content == LowerContent(req_file[1].content)
             found == Detections(content, "requirements.txt")
         IN  [detected_models |-> scan.detected_models \o found,
              max_vram |-> MaxVram(scan.max_vram, found),
              frameworks |-> scan.frameworks \cup RequirementsFrameworks(content)]

ScanPyproject(scan, pyproject) ==
    IF pyproject = None \/ ~pyproject[1].readable
    THEN scan
    ELSE LET content == LowerContent(pyproject[1].content)
             found == Detections(content, "pyproject.toml")
         IN  [detected_models |-> scan.detected_models \o found,
              max_vram |-> MaxVram(scan.max_vram, found),
              frameworks |-> scan.frameworks]

(* The baseline block.  Both manifests are read again inside one try: if   *)
(* either read raises, nothing is assigned.  all_content is the two        *)
(* contents joined (no line of one file continues in the other).           *)
FrameworkBaselineAlways(scan, req_file, pyproject) ==
    IF scan.max_vram # 0
    THEN scan
    ELSE [detected_models |->
              Append(scan.detected_models,
                     [model |-> "Generic ML Framework",
                      vram |-> 40,
                      file |-> "requirements.txt (baseline)"]),
          max_vram |-> 40,
          frameworks |-> scan.frameworks]

FrameworkBaseline(scan, req_file, pyproject) ==
    IF scan.max_vram # 0
    THEN scan
    ELSE IF \/ (req_file # None /\ ~req_file[1].readable)
            \/ (pyproject # None /\ ~pyproject[1].readable)
         THEN scan
         ELSE LET all_content ==
                      (IF req_file # None
                       THEN LowerContent(req_file[1].content) ELSE {})
                      \cup
                      (IF pyproject # None
                       THEN LowerContent(pyproject[1].content) ELSE {})
              IN  IF \E fw \in {"torch", "tensorflow", "jax"} :
                         Contains(fw, all_content)
                  THEN [detected_models |->
                            Append(scan.detected_models,
                                   [model |-> "Generic ML Framework",
                                    vram |-> 40,
                                    file |-> "requirements.txt (baseline)"]),
                        max_vram |-> 40,
                        frameworks |-> scan.frameworks]
                  ELSE scan

(* The dict unique_models as the list of its values, in insertion order:   *)
(* a later detection of a name replaces the value only if its vram is      *)
(* larger.                                                                 *)
RECURSIVE UniqueModelsKeepAll(_, _)
UniqueModelsKeepAll(unique_models, detected_models) ==
    IF detected_models = <<>>
    THEN unique_models
    ELSE UniqueModelsKeepAll(Append(unique_models, Head(detected_models)),
                             Tail(detected_models))

RECURSIVE UniqueModels(_, _)
UniqueModels(unique_models, detected_models) ==
    IF detected_models = <<>>
    THEN unique_models
    ELSE LET detection == Head(detected_models)
             at == {i \in 1..Len(unique_models) :
                       unique_models[i].model = detection.model}
         IN  UniqueModels(
                 IF at = {}
                 THEN Append(unique_models, detection)
                 ELSE LET i == CHOOSE j \in at : TRUE
                      IN  IF detection.vram > unique_models[i].vram
                          THEN [unique_models EXCEPT ![i] = detection]
                          ELSE unique_models,
                 Tail(detected_models))

(* sorted(list(frameworks)): the names in string order. *)
SortedFrameworks(frameworks) ==
    SelectSeq(<<"Diffusers", "JAX", "PyTorch", "TensorFlow", "Transformers">>,
              LAMBDA fw : fw \in frameworks)

estimate_vram_usage_detailed(project) ==
    LET scanned == ScanPyproject(
                       ScanRequirements(
                           ScanPyFiles([detected_models |-> <<>>,
                                        max_vram |-> 0,
                                        frameworks |-> {}],
                                       project.py_files),
                           project.requirements),
                       project.pyproject)
        scan == FrameworkBaseline(scanned, project.requirements, project.pyproject)
    IN  IF scan.max_vram = 0
        THEN None
        ELSE Some([estimated_vram |-> EstimatedVram(scan.max_vram),
                   base_vram |-> scan.max_vram,
                   detected_models |-> UniqueModels(<<>>, scan.detected_models),
                   frameworks |-> SortedFrameworks(scan.frameworks)])

(* ------------------- detect.py / project_scan.py: probes --------------- *)

(* What subprocess.run gives: the process exits with a return code and an  *)
(* output, the timeout expires, or the binary is missing.                  *)
Exited(returncode, stdout) ==
    [kind |-> "exit", returncode |-> returncode, stdout |-> stdout]

TimeoutExpired ==
    [kind |-> "TimeoutExpired"]

FileNotFound ==
    [kind |-> "FileNotFoundError"]

(* The pairs (needle, name) with needle in name.strip().lower(). *)
GpuNameHits ==
    {<<"a10", "NVIDIA A10G">>,
     <<"a10", "NVIDIA A100-SXM4-40GB">>, <<"a100", "NVIDIA A100-SXM4-40GB">>,
     <<"a10", "NVIDIA A100 80GB PCIe">>, <<"a100", "NVIDIA A100 80GB PCIe">>,
     <<"80gb", "NVIDIA A100 80GB PCIe">>,
     <<"t4", "Tesla T4">>,
     <<"v100", "Tesla V100-SXM2-16GB">>,
     <<"h100", "NVIDIA H100 80GB HBM3">>, <<"80gb", "NVIDIA H100 80GB HBM3">>}

InGpuName(needle, stdout) ==
    <<needle, stdout>> \in GpuNameHits

(* detect_current_gpu(), given what nvidia-smi --query-gpu=name does. *)
detect_current_gpu(nvidia_smi) ==
    IF nvidia_smi.kind # "exit"
    THEN "any"
    ELSE IF nvidia_smi.returncode # 0
    THEN "any"
    ELSE IF InGpuName("a10", nvidia_smi.stdout)
    THEN "gpu_1x_a10"
    ELSE IF InGpuName("a100", nvidia_smi.stdout)
    THEN IF InGpuName("80gb", nvidia_smi.stdout)
         THEN "gpu_1x_a100_80gb"
         ELSE "gpu_1x_a100"
    ELSE IF InGpuName("t4", nvidia_smi.stdout)
    THEN "gpu_1x_t4"
    ELSE IF InGpuName("v100", nvidia_smi.stdout)
    THEN "gpu_1x_v100"
    ELSE IF InGpuName("h100", nvidia_smi.stdout)
    THEN "gpu_1x_h100"
    ELSE "any"

(* get_gpu_memory_gb(), in tenths of a GB; stdout is Some(MiB) when the    *)
(* output parses as a number and None when float() raises ValueError.      *)
get_gpu_memory_gb(nvidia_smi) ==
    IF nvidia_smi.kind # "exit"
    THEN None
    ELSE IF nvidia_smi.returncode # 0
    THEN None
    ELSE IF nvidia_smi.stdout = None
    THEN None
    ELSE LET mib == nvidia_smi.stdout[1]
             q == (mib * 10) \div 1024
             rest == (mib * 10) % 1024
         IN  Some(IF rest * 2 > 1024 \/ (rest * 2 = 1024 /\ q % 2 = 1)
                  THEN q + 1
                  ELSE q)

(* The words of a line of brev ls that contain "*", and those whose upper  *)
(* case contains "RUNNING".                                                *)
WordsWithStar ==
    {"*"}

WordsWithRunning ==
    {"RUNNING", "running"}

(* "*" in line or "RUNNING" in line.upper(), a line being its words. *)
LineIsCurrent(parts) ==
    \E k \in 1..Len(parts) : parts[k] \in WordsWithStar \cup WordsWithRunning

LineIsRunning(parts) ==
    \E k \in 1..Len(parts) : parts[k] \in WordsWithRunning

NameParts(parts) ==
    SelectSeq(parts, LAMBDA part : part \notin {"*", "RUNNING", "STOPPED", "CREATING"})

(* The loop over the lines of brev ls: stops at the first current line     *)
(* that has at least two words.                                            *)
RECURSIVE ParseBrevLs(_, _)
ParseBrevLs(info, lines) ==
    IF lines = <<>>
    THEN info
    ELSE LET parts == Head(lines)
         IN  IF LineIsCurrent(parts) /\ Len(parts) >= 2
             THEN [info EXCEPT
                      !.instance_name = IF NameParts(parts) # <<>>
                                        THEN Some(Head(NameParts(parts)))
                                        ELSE info.instance_name,
                      !.status = IF LineIsRunning(parts)
                                 THEN Some("RUNNING")
                                 ELSE info.status]
             ELSE ParseBrevLs(info, Tail(lines))

BrevInfo ==
    [available |-> FALSE,
     instance_name |-> None,
     gpu_type |-> None,
     gpu_memory_gb |-> None,
     status |-> None]

check_brev_cli_available_first(smi_name, smi_memory, which_brev, brev_ls) ==
    LET info == [BrevInfo EXCEPT !.gpu_type = Some(detect_current_gpu(smi_name)),
                                 !.gpu_memory_gb = get_gpu_memory_gb(smi_memory)]
    IN  IF which_brev.kind # "exit"
        THEN [info |-> info, invoked |-> <<"which brev">>]
        ELSE IF which_brev.returncode # 0
        THEN [info |-> [info EXCEPT !.available = TRUE], invoked |-> <<"which brev">>]
        ELSE LET found == [info EXCEPT !.available = TRUE]
             IN  [info |-> IF brev_ls.kind = "exit" /\ brev_ls.returncode = 0
                           THEN ParseBrevLs(found, brev_ls.stdout)
                           ELSE found,
                  invoked |-> <<"which brev", "brev ls">>]

(* check_brev_cli(), given what each of the four subprocesses does; the    *)
(* result carries the BrevInfo returned and the commands run after the     *)
(* nvidia-smi probes.                                                      *)
check_brev_cli(smi_name, smi_memory, which_brev, brev_ls) ==
    LET info == [BrevInfo EXCEPT !.gpu_type = Some(detect_current_gpu(smi_name)),
                                 !.gpu_memory_gb = get_gpu_memory_gb(smi_memory)]
    IN  IF which_brev.kind # "exit"
        THEN [info |-> info, invoked |-> <<"which brev">>]
        ELSE IF which_brev.returncode # 0
        THEN [info |-> info, invoked |-> <<"which brev">>]
        ELSE LET found == [info EXCEPT !.available = TRUE]
             IN  [info |-> IF brev_ls.kind = "exit" /\ brev_ls.returncode = 0
                           THEN ParseBrevLs(found, brev_ls.stdout)
                           ELSE found,
                  invoked |-> <<"which brev", "brev ls">>]

(* ------------------------- launchable_schema.py ----------------------- *)

EXIT_SUCCESS == 0

EXIT_VALIDATION_FAILURE == 2

EXIT_GENERATION_FAILURE == 3

DEFAULT_JUPYTER_PORT == 8888

DEFAULT_WEBAPP_PORT == 7860

DEFAULT_NOTEBOOK_COMMAND == "jupyter lab --ip=0.0.0.0 --port=8888 --no-browser"

DEFAULT_WEBAPP_COMMAND == "python app.py"

PROJECT_TYPE_NOTEBOOK == "notebook"

PROJECT_TYPE_WEBAPP == "webapp"

NotebookConfig(command, port) ==
    [enable_jupyter |-> TRUE, command |-> command, port |-> port]

WebappConfig(expose_port, command) ==
    [expose_port |-> expose_port, command |-> command]

(* LaunchableConfig(name=..., description=..., source=...): every other    *)
(* field takes its default.                                                *)
LaunchableConfig(name, description, source) ==
    [name |-> name,
     description |-> description,
     source |-> source,
     runtime |-> [mode |-> "vm",
                  setup |-> [python_version |-> "3.10",
                             install |-> "pip install -r requirements.txt"],
                  start |-> [notebook |-> None, webapp |-> None]],
     compute |-> [gpu |-> "any", note |-> "Select lowest-cost GPU in Brev UI"],
     networking |-> [ports |-> <<>>],
     files |-> [include |-> <<".">>],
     metadata |-> [generated_by |-> "brev-launcher", generated_at |-> "now"]]

(* The methods class LaunchableConfig defines. *)
LaunchableConfigMethods ==
    {"with_notebook", "with_webapp", "with_install_command"}

AppendPort(ports, port) ==
    IF \E k \in 1..Len(ports) : ports[k] = port
    THEN ports
    ELSE Append(ports, port)

with_notebook_keeping_webapp(self, command, port) ==
    [self EXCEPT !.runtime.start.notebook = Some(NotebookConfig(command, port)),
                 !.networking.ports = AppendPort(self.networking.ports, port)]

with_notebook(self, command, port) ==
    [self EXCEPT !.runtime.start.notebook = Some(NotebookConfig(command, port)),
                 !.runtime.start.webapp = None,
                 !.networking.ports = AppendPort(self.networking.ports, port)]

with_webapp(self, command, port) ==
    [self EXCEPT !.runtime.start.webapp = Some(WebappConfig(port, command)),
                 !.runtime.start.notebook = None,
                 !.networking.ports = AppendPort(self.networking.ports, port)]

with_install_command(self, command) ==
    [self EXCEPT !.runtime.setup.install = command]

(* ----------------------------- render_yaml.py -------------------------- *)

(* A mapping is rendered as the sequence of its <<key, value>> pairs in    *)
(* the order the keys are inserted.                                        *)
StartSection(start) ==
    (IF start.notebook # None
     THEN <<<<"notebook", <<<<"enable_jupyter", start.notebook[1].enable_jupyter>>,
                            <<"command", start.notebook[1].command>>,
                            <<"port", start.notebook[1].port>>>>>>>>
     ELSE <<>>)
    \o
    (IF start.webapp # None
     THEN <<<<"webapp", <<<<"expose_port", start.webapp[1].expose_port>>,
                          <<"command", start.webapp[1].command>>>>>>>>
     ELSE <<>>)

ordered_dict_from_config(config) ==
    <<<<"name", config.name>>,
      <<"description", config.description>>,
      <<"source", <<<<"type", config.source.type>>,
                    <<"url", config.source.url>>,
                    <<"ref", config.source.ref>>,
                    <<"path", config.source.path>>>>>>,
      <<"runtime", <<<<"mode", config.runtime.mode>>,
                     <<"setup", <<<<"python_version", config.runtime.setup.python_version>>,
                                  <<"install", config.runtime.setup.install>>>>>>,
                     <<"start", StartSection(config.runtime.start)>>>>>>,
      <<"compute", <<<<"gpu", config.compute.gpu>>,
                     <<"note", config.compute.note>>>>>>,
      <<"networking", <<<<"ports", config.networking.ports>>>>>>,
      <<"files", <<<<"include", config.files.include>>>>>>,
      <<"metadata", <<<<"generated_by", config.metadata.generated_by>>,
                      <<"generated_at", config.metadata.generated_at>>>>>>>>

render_yaml(config) ==
    ordered_dict_from_config(config)

(* The value under a key of a rendered mapping. *)
YamlGet(mapping, key) ==
    mapping[CHOOSE k \in 1..Len(mapping) : mapping[k][1] = key][2]

(* The keys of a rendered mapping, in order. *)
YamlKeys(mapping) ==
    AsList([k \in 1..Len(mapping) |-> mapping[k][1]])

(* ------------------------------ cli.py: init --------------------------- *)

(* init(path, non_interactive, project_type, port).  scan.git is None when *)
(* scan_project raises GitError; answers holds what the user answers to    *)
(* the prompts; write_fails says whether writing launchable.yaml raises.   *)
init(scan, non_interactive, project_type, port, answers, write_fails) ==
    IF scan.git = None /\ (non_interactive \/ ~answers.continue)
    THEN [exit_code |-> EXIT_VALIDATION_FAILURE,
          launchable_yaml |-> None,
          output |-> <<"validation_error">>]
    ELSE LET git == IF scan.git = None
                    THEN [repo_name |-> "project",
                          normalized_url |-> "https://github.com/YOUR_USERNAME/YOUR_REPO",
                          default_branch |-> "main"]
                    ELSE scan.git[1]
             chosen_type == IF project_type # None /\ project_type[1] # ""
                            THEN project_type[1]
                            ELSE IF non_interactive
                                 THEN scan.inferred_type
                                 ELSE answers.project_type
             default_port == IF chosen_type = PROJECT_TYPE_NOTEBOOK
                             THEN DEFAULT_JUPYTER_PORT
                             ELSE DEFAULT_WEBAPP_PORT
             chosen_port == IF port # None /\ port[1] # 0
                            THEN port[1]
                            ELSE IF non_interactive
                                 THEN default_port
                                 ELSE IF chosen_type = PROJECT_TYPE_WEBAPP
                                      THEN answers.port
                                      ELSE default_port
             chosen_command == IF non_interactive
                               THEN IF chosen_type = PROJECT_TYPE_NOTEBOOK
                                    THEN DEFAULT_NOTEBOOK_COMMAND
                                    ELSE DEFAULT_WEBAPP_COMMAND
                               ELSE answers.command
             built == with_install_command(
                          LaunchableConfig(git.repo_name,
                                           "deployed via Brev Launchables",
                                           [type |-> "git",
                                            url |-> git.normalized_url,
                                            ref |-> git.default_branch,
                                            path |-> "/"]),
                          scan.install_command)
             config == IF chosen_type = PROJECT_TYPE_NOTEBOOK
                       THEN with_notebook(built, chosen_command, chosen_port)
                       ELSE with_webapp(built, chosen_command, chosen_port)
         IN  IF "with_gpu" \notin LaunchableConfigMethods
             THEN [exit_code |-> EXIT_GENERATION_FAILURE,
                   launchable_yaml |-> None,
                   output |-> <<"Failed to generate config">>]
             ELSE IF write_fails
                  THEN [exit_code |-> EXIT_GENERATION_FAILURE,
                        launchable_yaml |-> None,
                        output |-> <<"Failed to generate config">>]
                  ELSE [exit_code |-> EXIT_SUCCESS,
                        launchable_yaml |-> Some(render_yaml(config)),
                        output |-> <<"file_written", "yaml_preview", "next_steps",
                                     "badge_snippet", "smoke_test_checklist", "done">>]

(* ------------------------------ state ---------------------------------- *)

VARIABLES
    brev_instances,   \* the module-level list BREV_INSTANCES
    gpu_pricing,      \* the module-level dict GPU_PRICING
    pc,               \* "idle", or the name of the function that returned
    args,             \* the arguments of the last call
    result,           \* its return value
    config            \* the LaunchableConfig object in use, None without one

vars ==
    <<brev_instances, gpu_pricing, pc, args, result, config>>

(* The offers of BREV_INSTANCES at 1.50 $/h or more: a catalog in which    *)
(* the cheapest eligible price is shared by several offers.                *)
PremiumInstances ==
    SelectSeq(BREV_INSTANCES, LAMBDA instance : instance.price_per_hour >= 150)

(* The catalogs with the total of the second row (B300 x2) mistyped. *)
CatalogsWithMistypedTotal ==
    {[BREV_INSTANCES EXCEPT ![2].total_vram_gib = 288], PremiumInstances}

Catalogs ==
    {BREV_INSTANCES, PremiumInstances}

(* Requirements, in tenths of a GB, around every value r at which          *)
(* r * 1.2 meets the VRAM of some catalog entry, 0, and the negative       *)
(* -5.0, which no caller check keeps out.                                  *)
EstimatedVramInputs ==
    {0 - 50, 0} \cup
    {((BREV_INSTANCES[k].total_vram_gib * 100) \div 12) + d :
         k \in 1..Len(BREV_INSTANCES), d \in (0 - MaxDelta)..MaxDelta}

CurrentPriceInputs ==
    {None, Some(0), Some(40), Some(200)}

Init ==
    /\ brev_instances \in Catalogs
    /\ gpu_pricing = GPU_PRICING
    /\ pc = "idle"
    /\ args = [estimated_vram_gb |-> 0]
    /\ result = [recommended |-> None]
    /\ config = None

CallRecommendGpuAdvancedSortingCatalog ==
    /\ pc = "idle"
    /\ \E estimated_vram_gb \in EstimatedVramInputs,
          current_price \in CurrentPriceInputs,
          max_results \in 0..MaxResults :
           /\ args' = [estimated_vram_gb |-> estimated_vram_gb,
                       current_price |-> current_price,
                       max_results |-> max_results]
           /\ result' = recommend_gpu_advanced(brev_instances, estimated_vram_gb,
                                               current_price, max_results)
    /\ pc' = "recommend_gpu_advanced"
    /\ brev_instances' = SortInstances(brev_instances)
    /\ UNCHANGED <<gpu_pricing, config>>

(* recommend_gpu_advanced(estimated_vram_gb, None, current_price, max_results) *)
CallRecommendGpuAdvanced ==
    /\ pc = "idle"
    /\ \E estimated_vram_gb \in EstimatedVramInputs,
          current_price \in CurrentPriceInputs,
          max_results \in 0..MaxResults :
           /\ args' = [estimated_vram_gb |-> estimated_vram_gb,
                       current_price |-> current_price,
                       max_results |-> max_results]
           /\ result' = recommend_gpu_advanced(brev_instances, estimated_vram_gb,
                                               current_price, max_results)
    /\ pc' = "recommend_gpu_advanced"
    /\ UNCHANGED <<brev_instances, gpu_pricing, config>>

(* The smaller requirement of a pair of calls: the largest requirement     *)
(* each catalog entry still meets, 0 and -5.0.                             *)
SmallerRequirementInputs ==
    {0 - 50, 0} \cup
    {(BREV_INSTANCES[k].total_vram_gib * 100) \div 12 : k \in 1..Len(BREV_INSTANCES)}

(* recommend_gpu_advanced(r1) followed by recommend_gpu_advanced(r2) for   *)
(* requirements r1 <= r2.                                                  *)
CallRecommendGpuAdvancedTwice ==
    /\ pc = "idle"
    /\ \E r1 \in SmallerRequirementInputs, r2 \in EstimatedVramInputs :
           /\ r1 <= r2
           /\ args' = [r1 |-> r1, r2 |-> r2]
           /\ result' = [first |-> recommend_gpu_advanced(brev_instances, r1,
                                                          None, MaxResults),
                         second |-> recommend_gpu_advanced(brev_instances, r2,
                                                           None, MaxResults)]
    /\ pc' = "recommend_gpu_advanced twice"
    /\ UNCHANGED <<brev_instances, gpu_pricing, config>>

(* recommend_gpu(r1) followed by recommend_gpu(r2) for r1 <= r2. *)
CallRecommendGpuTwice ==
    /\ pc = "idle"
    /\ \E r1 \in SmallerRequirementInputs, r2 \in EstimatedVramInputs :
           /\ r1 <= r2
           /\ args' = [r1 |-> r1, r2 |-> r2]
           /\ result' = [first |-> recommend_gpu(gpu_pricing, r1, None),
                         second |-> recommend_gpu(gpu_pricing, r2, None)]
    /\ pc' = "recommend_gpu twice"
    /\ UNCHANGED <<brev_instances, gpu_pricing, config>>

CurrentGpuInputs ==
    {None, Some(""), Some("gpu_8x_h100")} \cup {Some(id) : id \in GpuIds(GPU_PRICING)}

(* recommend_gpu(estimated_vram_gb, current_gpu) *)
CallRecommendGpu ==
    /\ pc = "idle"
    /\ \E estimated_vram_gb \in EstimatedVramInputs, current_gpu \in CurrentGpuInputs :
           /\ args' = [estimated_vram_gb |-> estimated_vram_gb,
                       current_gpu |-> current_gpu]
           /\ result' = recommend_gpu(gpu_pricing, estimated_vram_gb, current_gpu)
    /\ pc' = "recommend_gpu"
    /\ UNCHANGED <<brev_instances, gpu_pricing, config>>

(* cost_estimate(path, hours_per_day): the project at path decides what   *)
(* scan_project and estimate_vram_usage return.                            *)
ScanInputs ==
    {None} \cup {Some(t) : t \in DetectedGpuTypes}

EstimateInputs ==
    {None} \cup {Some(EstimatedVram(b)) : b \in ModelBaselines}

HoursPerDayInputs ==
    {1, 8, 24}

CallCostEstimate ==
    /\ pc = "idle"
    /\ \E scan_gpu_type \in ScanInputs, estimated \in EstimateInputs,
          hours_per_day \in HoursPerDayInputs :
           /\ args' = [scan_gpu_type |-> scan_gpu_type,
                       estimated |-> estimated,
                       hours_per_day |-> hours_per_day]
           /\ result' = cost_estimate(gpu_pricing, scan_gpu_type, estimated,
                                      hours_per_day)
    /\ pc' = "cost_estimate"
    /\ UNCHANGED <<brev_instances, gpu_pricing, config>>

(* The projects scanned: the .py files in the order rglob yields them, and *)
(* the two manifests.                                                      *)
PyFileNames ==
    {"app.py", "models/pipeline.py", ".scratch.py"}

PyFileInputs ==
    {[name |-> n, readable |-> TRUE, content |-> c] :
        n \in PyFileNames,
        c \in {{"print('hello')"},
               {"import torch"},
               {"import torch", "from diffusers import StableDiffusionPipeline",
                "# Stable Diffusion 1.5 demo"},
               {"from transformers import pipeline",
                "MODEL = 'meta-llama/Llama-2-7b-hf'",
                "# Stable Diffusion 1.5 demo"}}}
    \cup
    {[name |-> n, readable |-> FALSE,
      content |-> {"MODEL = 'meta-llama/Llama-2-7b-hf'"}] : n \in PyFileNames}

RequirementsInputs ==
    {None}
    \cup
    {Some([readable |-> TRUE, content |-> c]) :
        c \in {{"flask"}, {"torch==2.1.0"}, {"jax[cuda]"}, {"diffusers"},
               {"torch==2.1.0", "openai-whisper  # Whisper large-v3"}}}
    \cup
    {Some([readable |-> FALSE, content |-> {"torch==2.1.0"}])}

PyprojectInputs ==
    {None}
    \cup
    {Some([readable |-> TRUE, content |-> c]) :
        c \in {{"name = \"demo\""}, {"dependencies = [\"torch\"]"},
               {"description = \"SDXL demo\""}}}
    \cup
    {Some([readable |-> FALSE, content |-> {"dependencies = [\"torch\"]"}])}

ProjectInputs ==
    {[py_files |-> files, requirements |-> req, pyproject |-> pyp] :
        files \in {f \in UNION {[1..n -> PyFileInputs] : n \in 0..MaxPyFiles} :
                      \A i, j \in DOMAIN f : f[i].name = f[j].name => i = j},
        req \in RequirementsInputs,
        pyp \in PyprojectInputs}

(* estimate_vram_usage_detailed(path) *)
CallEstimateVramUsageDetailed ==
    /\ pc = "idle"
    /\ \E project \in ProjectInputs :
           /\ args' = [project |-> project]
           /\ result' = estimate_vram_usage_detailed(project)
    /\ pc' = "estimate_vram_usage_detailed"
    /\ UNCHANGED <<brev_instances, gpu_pricing, config>>

(* The caller is done with the returned value. *)
InitScanInputs ==
    [git : {None, Some([repo_name |-> "demo",
                        normalized_url |-> "https://github.com/acme/demo",
                        default_branch |-> "main"])},
     inferred_type : {PROJECT_TYPE_NOTEBOOK, PROJECT_TYPE_WEBAPP},
     install_command : {"pip install -r requirements.txt"},
     gpu_type : {"any", "gpu_1x_a10"}]

PortInputs ==
    {DEFAULT_JUPYTER_PORT, DEFAULT_WEBAPP_PORT, 8000}

CommandInputs ==
    {DEFAULT_NOTEBOOK_COMMAND, DEFAULT_WEBAPP_COMMAND}

AnswerInputs ==
    [continue : BOOLEAN,
     project_type : {PROJECT_TYPE_NOTEBOOK, PROJECT_TYPE_WEBAPP},
     port : {DEFAULT_WEBAPP_PORT, 8000},
     command : {DEFAULT_WEBAPP_COMMAND}]

(* brev-launcher init [--non-interactive] [--type T] [--port P] *)
CallInit ==
    /\ pc = "idle"
    /\ \E scan \in InitScanInputs,
          non_interactive \in BOOLEAN,
          project_type \in {None, Some(PROJECT_TYPE_WEBAPP)},
          port \in {None, Some(8000)},
          answers \in AnswerInputs,
          write_fails \in BOOLEAN :
           /\ args' = [scan |-> scan,
                       non_interactive |-> non_interactive,
                       project_type |-> project_type,
                       port |-> port,
                       answers |-> answers,
                       write_fails |-> write_fails]
           /\ result' = init(scan, non_interactive, project_type, port,
                             answers, write_fails)
    /\ pc' = "init"
    /\ UNCHANGED <<brev_instances, gpu_pricing, config>>

GpuNameInputs ==
    {"NVIDIA A10G", "NVIDIA A100-SXM4-40GB", "NVIDIA A100 80GB PCIe", "Tesla T4",
     "Tesla V100-SXM2-16GB", "NVIDIA H100 80GB HBM3", "NVIDIA GeForce RTX 4090", ""}

SmiNameInputs ==
    {Exited(0, name) : name \in GpuNameInputs}
    \cup {Exited(9, ""), TimeoutExpired, FileNotFound}

SmiMemoryInputs ==
    {Exited(0, Some(15360)), Exited(0, Some(23028)), Exited(0, None),
     Exited(9, None), TimeoutExpired, FileNotFound}

WhichBrevInputs ==
    {Exited(0, "/usr/local/bin/brev"), Exited(1, ""), TimeoutExpired, FileNotFound}

BrevLsInputs ==
    {Exited(0, <<>>),
     Exited(0, <<<<"NAME", "STATUS">>, <<"my-gpu", "RUNNING">>>>),
     Exited(0, <<<<"*", "my-gpu", "STOPPED">>>>),
     Exited(0, <<<<"RUNNING">>, <<"other-gpu", "running">>>>),
     Exited(0, <<<<"*", "RUNNING">>>>),
     Exited(1, <<<<"*", "my-gpu", "RUNNING">>>>),
     TimeoutExpired, FileNotFound}

(* detect_current_gpu() *)
CallDetectCurrentGpu ==
    /\ pc = "idle"
    /\ \E smi_name \in SmiNameInputs :
           /\ args' = [smi_name |-> smi_name]
           /\ result' = detect_current_gpu(smi_name)
    /\ pc' = "detect_current_gpu"
    /\ UNCHANGED <<brev_instances, gpu_pricing, config>>

(* check_brev_cli() *)
CallCheckBrevCli ==
    /\ pc = "idle"
    /\ \E smi_name \in SmiNameInputs, smi_memory \in SmiMemoryInputs,
          which_brev \in WhichBrevInputs, brev_ls \in BrevLsInputs :
           /\ args' = [smi_name |-> smi_name, smi_memory |-> smi_memory,
                       which_brev |-> which_brev, brev_ls |-> brev_ls]
           /\ result' = check_brev_cli(smi_name, smi_memory, which_brev, brev_ls)
    /\ pc' = "check_brev_cli"
    /\ UNCHANGED <<brev_instances, gpu_pricing, config>>

(* config = LaunchableConfig(name=..., description=..., source=...) *)
NewLaunchableConfig ==
    /\ pc = "idle"
    /\ config' = Some(LaunchableConfig("demo", "deployed via Brev Launchables",
                                       [type |-> "git",
                                        url |-> "https://github.com/acme/demo",
                                        ref |-> "main",
                                        path |-> "/"]))
    /\ pc' = "LaunchableConfig"
    /\ args' = [name |-> "demo"]
    /\ result' = config'
    /\ UNCHANGED <<brev_instances, gpu_pricing>>

(* config.with_notebook(command, port) *)
CallWithNotebook ==
    /\ config # None
    /\ \E command \in CommandInputs, port \in PortInputs :
           /\ config' = Some(with_notebook(config[1], command, port))
           /\ args' = [command |-> command, port |-> port]
    /\ pc' = "with_notebook"
    /\ result' = config'
    /\ UNCHANGED <<brev_instances, gpu_pricing>>

(* config.with_webapp(command, port) *)
CallWithWebapp ==
    /\ config # None
    /\ \E command \in CommandInputs, port \in PortInputs :
           /\ config' = Some(with_webapp(config[1], command, port))
           /\ args' = [command |-> command, port |-> port]
    /\ pc' = "with_webapp"
    /\ result' = config'
    /\ UNCHANGED <<brev_instances, gpu_pricing>>

(* render_yaml(config) *)
CallRenderYaml ==
    /\ config # None
    /\ pc # "render_yaml"
    /\ result' = render_yaml(config[1])
    /\ pc' = "render_yaml"
    /\ UNCHANGED <<brev_instances, gpu_pricing, config, args>>

Return ==
    /\ pc # "idle"
    /\ pc' = "idle"
    /\ args' = [estimated_vram_gb |-> 0]
    /\ result' = [recommended |-> None]
    /\ config' = None
    /\ UNCHANGED <<brev_instances, gpu_pricing>>

Next ==
    \/ CallRecommendGpuAdvanced
    \/ CallRecommendGpu
    \/ CallRecommendGpuAdvancedTwice
    \/ CallRecommendGpuTwice
    \/ CallCostEstimate
    \/ CallEstimateVramUsageDetailed
    \/ CallDetectCurrentGpu
    \/ CallCheckBrevCli
    \/ CallInit
    \/ NewLaunchableConfig
    \/ CallWithNotebook
    \/ CallWithWebapp
    \/ CallRenderYaml
    \/ Return

Spec ==
    Init /\ [][Next]_vars

(* ------------------------------ claims --------------------------------- *)

ReturnedAdvanced ==
    pc = "recommend_gpu_advanced"

ReturnedSimple ==
    pc = "recommend_gpu"

(* The catalog is the shipped one. *)
Shipped ==
    brev_instances = BREV_INSTANCES

(* Indices of the catalog entries whose total VRAM is >= required * 1.2. *)
EligibleIndices ==
    {k \in 1..Len(brev_instances) :
        brev_instances[k].total_vram_gib * 100 >= args.estimated_vram_gb * 12}

EligibleGpuIds ==
    {gpu_pricing[k].gpu_id : k \in {j \in 1..Len(gpu_pricing) :
        /\ gpu_pricing[j].gpu_id # "any"
        /\ gpu_pricing[j].vram_gb * 100 >= args.estimated_vram_gb * 12}}

(* The recommended instance followed by the alternatives. *)
Shown ==
    result.recommended \o result.alternatives

(* C1: both recommenders return only instances whose total VRAM is >=      *)
(* required * 1.2 (recommended, alternatives / all_options, and the count  *)
(* total_options); an instance exactly at the threshold is eligible, one   *)
(* below it is excluded.                                                   *)
C1_OnlyFittingInstances ==
    /\ ReturnedAdvanced =>
           /\ \A k \in 1..Len(Shown) :
                  Shown[k].total_vram_gib * 100 >= args.estimated_vram_gb * 12
           /\ (result.recommended = None) <=> (EligibleIndices = {})
           /\ result.recommended # None =>
                  result.total_options <= Cardinality(EligibleIndices)
    /\ ReturnedSimple =>
           /\ (result.recommended = None) <=> (EligibleGpuIds = {})
           /\ result.recommended # None =>
                  /\ result.info.vram_gb * 100 >= args.estimated_vram_gb * 12
                  /\ result.recommended[1] \in EligibleGpuIds
                  /\ {result.all_options[k].gpu_id :
                          k \in 1..Len(result.all_options)} = EligibleGpuIds
                  /\ \A k \in 1..Len(result.all_options) :
                         result.all_options[k].info.vram_gb * 100
                             >= args.estimated_vram_gb * 12

(* The recommended instance sits exactly at the threshold, and a cheaper   *)
(* catalog entry below the threshold was left out.                         *)
C1_Witness ==
    /\ ReturnedAdvanced
    /\ result.recommended # None
    /\ result.recommended[1].total_vram_gib * 100 = args.estimated_vram_gb * 12
    /\ \E k \in 1..Len(brev_instances) :
           /\ brev_instances[k].total_vram_gib * 100 < args.estimated_vram_gb * 12
           /\ brev_instances[k].price_per_hour < result.recommended[1].price_per_hour

(* C2: the recommended instance has the minimum price among the eligible   *)
(* instances and, among those at that price, the maximum cost_efficiency.  *)
C2_CheapestThenMostEfficient ==
    (ReturnedAdvanced /\ result.recommended # None) =>
        \A k \in EligibleIndices :
            /\ result.recommended[1].price_per_hour <= brev_instances[k].price_per_hour
            /\ brev_instances[k].price_per_hour = result.recommended[1].price_per_hour
                   => result.recommended[1].cost_efficiency
                          >= brev_instances[k].cost_efficiency

(* An eligible entry listed before the recommended one has the same price  *)
(* and a lower cost_efficiency.                                            *)
C2_Witness ==
    /\ ReturnedAdvanced
    /\ result.recommended # None
    /\ \E k, m \in EligibleIndices :
           /\ k < m
           /\ brev_instances[m] = result.recommended[1]
           /\ brev_instances[k].price_per_hour = result.recommended[1].price_per_hour
           /\ brev_instances[k].cost_efficiency < result.recommended[1].cost_efficiency

(* C3: when no catalog instance is eligible the result has recommended     *)
(* None, a non-empty reason and an empty alternatives list.                *)
C3_NoSuitableConfiguration ==
    (ReturnedAdvanced /\ EligibleIndices = {}) =>
        /\ result.recommended = None
        /\ "reason" \in DOMAIN result
        /\ result.reason # ""
        /\ result.alternatives = <<>>

C3_Witness ==
    /\ ReturnedAdvanced
    /\ EligibleIndices = {}
    /\ args.estimated_vram_gb > 0
    /\ result.recommended = None

(* s has no two entries with the same (gpu_model, gpus, vram_per_gpu_gib). *)
DistinctConfigs(s) ==
    \A i, j \in 1..Len(s) :
        (/\ s[i].gpu_model = s[j].gpu_model
         /\ s[i].gpus = s[j].gpus
         /\ s[i].vram_per_gpu_gib = s[j].vram_per_gpu_gib) => i = j

(* C4: recommended together with alternatives holds no two entries with    *)
(* the same (gpu_model, gpus, vram_per_gpu_gib).                           *)
C4_OneEntryPerConfiguration ==
    (ReturnedAdvanced /\ Shipped /\ result.recommended # None) =>
        DistinctConfigs(Shown)

(* C5: the alternatives hold no two entries with the same configuration,   *)
(* and each is the cheapest eligible instance of its configuration other   *)
(* than the recommended instance.                                          *)
C5_AlternativesDistinctAndCheapest ==
    (ReturnedAdvanced /\ result.recommended # None) =>
        /\ DistinctConfigs(result.alternatives)
        /\ \A a \in 1..Len(result.alternatives) :
               LET alt == result.alternatives[a]
               IN  /\ alt # result.recommended[1]
                   /\ \E k \in EligibleIndices : brev_instances[k] = alt
                   /\ \A k \in EligibleIndices :
                          (/\ brev_instances[k] # result.recommended[1]
                           /\ brev_instances[k].gpu_model = alt.gpu_model
                           /\ brev_instances[k].gpus = alt.gpus
                           /\ brev_instances[k].vram_per_gpu_gib = alt.vram_per_gpu_gib)
                              => alt.price_per_hour <= brev_instances[k].price_per_hour

(* Some alternative has a dearer eligible offer of the same configuration  *)
(* that was left out.                                                      *)
C5_Witness ==
    /\ ReturnedAdvanced
    /\ result.recommended # None
    /\ Len(result.alternatives) >= 2
    /\ \E a \in 1..Len(result.alternatives), k \in EligibleIndices :
           /\ brev_instances[k].gpu_model = result.alternatives[a].gpu_model
           /\ brev_instances[k].gpus = result.alternatives[a].gpus
           /\ brev_instances[k].vram_per_gpu_gib = result.alternatives[a].vram_per_gpu_gib
           /\ brev_instances[k].price_per_hour > result.alternatives[a].price_per_hour
           /\ brev_instances[k] # result.recommended[1]

(* C6: the alternatives list has at most max_results entries, for every    *)
(* max_results >= 0.                                                       *)
C6_AtMostMaxResults ==
    (ReturnedAdvanced /\ Shipped /\ result.recommended # None) =>
        Len(result.alternatives) <= args.max_results

(* C7: total_options is the number of eligible catalog instances, whatever *)
(* max_results is; hence total_options >= 1 + len(alternatives).           *)
C7_TotalOptionsCountsEligible ==
    (ReturnedAdvanced /\ result.recommended # None) =>
        /\ result.total_options = Cardinality(EligibleIndices)
        /\ result.total_options >= 1 + Len(result.alternatives)

(* More instances are eligible than are shown. *)
C7_Witness ==
    /\ ReturnedAdvanced
    /\ result.recommended # None
    /\ args.max_results >= 1
    /\ Len(result.alternatives) = args.max_results
    /\ result.total_options > 1 + Len(result.alternatives)

(* C8: a supplied current price (0.0 included) always yields a savings     *)
(* record with hourly = current price - recommended price; savings is      *)
(* absent only when no current price was supplied.                         *)
C8_SavingsWheneverPriceSupplied ==
    (ReturnedAdvanced /\ Shipped /\ result.recommended # None) =>
        /\ args.current_price # None =>
               /\ result.savings # None
               /\ result.savings[1].hourly
                      = args.current_price[1] - result.recommended[1].price_per_hour
        /\ result.savings = None => args.current_price = None

(* C9: at the default 24 hours per day the savings record of both          *)
(* recommenders has monthly = hourly * 24 * 30 and yearly = hourly * 24 *  *)
(* 365.                                                                    *)
C9_SavingsProjection ==
    ((ReturnedAdvanced \/ ReturnedSimple)
        /\ result.recommended # None /\ result.savings # None) =>
        /\ result.savings[1].monthly = result.savings[1].hourly * 24 * 30
        /\ result.savings[1].yearly = result.savings[1].hourly * 24 * 365

(* Current 2.00 $/h against a recommended 1.50 $/h: 360 $ and 4380 $. *)
C9_Witness ==
    /\ ReturnedAdvanced
    /\ args.current_price = Some(200)
    /\ result.recommended # None
    /\ result.recommended[1].price_per_hour = 150
    /\ result.savings # None
    /\ result.savings[1].hourly = 50
    /\ result.savings[1].monthly = 36000
    /\ result.savings[1].yearly = 438000

(* C10: cost-estimate run with --hours h reports, for the recommendation,  *)
(* monthly savings (current - recommended price) * h * 30 and yearly       *)
(* savings * h * 365, the h of the comparison table.                       *)
C10_SavingsUseHoursOption ==
    (pc = "cost_estimate" /\ result.outcome = "switch") =>
        \E k \in 1..Len(gpu_pricing) :
            /\ gpu_pricing[k].name = result.switch_to[1].name
            /\ result.switch_to[1].savings_monthly
                   = FormatDollars((result.current.cost_per_hour
                                       - gpu_pricing[k].cost_per_hour)
                                   * args.hours_per_day * 30)
            /\ result.switch_to[1].savings_yearly
                   = FormatDollars((result.current.cost_per_hour
                                       - gpu_pricing[k].cost_per_hour)
                                   * args.hours_per_day * 365)

(* The simple catalog names the 80 GB A100 "A100 80GB"; the itemized one   *)
(* names it "A100" with vram_per_gpu_gib = 80.                             *)
SameGpuModel(info, instance) ==
    \/ info.name = instance.gpu_model
    \/ (/\ info.name = "A100 80GB"
        /\ instance.gpu_model = "A100"
        /\ instance.vram_per_gpu_gib = 80)

(* C11: for every requirement both catalogs can satisfy, recommend_gpu and *)
(* recommend_gpu_advanced recommend the same GPU model at the same hourly  *)
(* price.                                                                  *)
C11_VariantsAgree ==
    (ReturnedSimple /\ Shipped /\ args.estimated_vram_gb >= 0
        /\ result.recommended # None) =>
        LET advanced == recommend_gpu_advanced(brev_instances,
                                               args.estimated_vram_gb, None, 0)
        IN  advanced.recommended # None =>
                /\ SameGpuModel(result.info, advanced.recommended[1])
                /\ result.info.cost_per_hour = advanced.recommended[1].price_per_hour

(* C12: a negative required VRAM is rejected with a validation failure by  *)
(* both recommenders; no recommendation is produced for it.                *)
C12_NegativeRequirementRejected ==
    ((ReturnedAdvanced \/ ReturnedSimple) /\ args.estimated_vram_gb < 0) =>
        /\ "raised" \in DOMAIN result
        /\ result.recommended = None

(* C13: every catalog entry has total_vram_gib = gpus * vram_per_gpu_gib,  *)
(* gpus >= 1 and price_per_hour > 0.                                       *)
C13_CatalogTotalsConsistent ==
    \A k \in 1..Len(brev_instances) :
        /\ brev_instances[k].total_vram_gib
               = brev_instances[k].gpus * brev_instances[k].vram_per_gpu_gib
        /\ brev_instances[k].gpus >= 1
        /\ brev_instances[k].price_per_hour > 0

(* The shipped catalog is in use, multi-GPU rows included, and a           *)
(* recommendation was made from it.                                        *)
C13_Witness ==
    /\ Shipped
    /\ ReturnedAdvanced
    /\ result.recommended # None
    /\ result.recommended[1].gpus > 1
    /\ \E k \in 1..Len(brev_instances) :
           brev_instances[k].gpus = 8 /\ brev_instances[k].total_vram_gib = 2304

(* C14: every entry of BREV_INSTANCES has cost_efficiency within 0.005 of  *)
(* total_vram_gib / price_per_hour.  In hundredths, with the price in      *)
(* cents: |cost_efficiency - 10000 * total / price| <= 1/2.                *)
C14_CostEfficiencyConsistent ==
    Shipped =>
        \A k \in 1..Len(brev_instances) :
            LET gap == brev_instances[k].cost_efficiency * brev_instances[k].price_per_hour
                           - 10000 * brev_instances[k].total_vram_gib
            IN  2 * (IF gap < 0 THEN 0 - gap ELSE gap)
                    <= brev_instances[k].price_per_hour

ReturnedEstimate ==
    pc = "estimate_vram_usage_detailed"

(* The lowered contents of the .py files the scan reads. *)
SourceContents ==
    {LowerContent(args.project.py_files[k].content) :
        k \in {j \in 1..Len(args.project.py_files) :
                  /\ ~StartsWithDot(args.project.py_files[j].name)
                  /\ args.project.py_files[j].readable}}

(* The lowered contents of the manifests the scan reads. *)
ManifestContents ==
    {LowerContent(m[1].content) :
        m \in {f \in {args.project.requirements, args.project.pyproject} :
                  f # None /\ f[1].readable}}

(* The (model, vram) pairs of the signatures that match in a scanned file. *)
MatchedSignatures ==
    {<<ModelPatterns[k].model, ModelPatterns[k].vram>> :
        k \in {j \in 1..Len(ModelPatterns) :
                  \E c \in SourceContents \cup ManifestContents :
                      \E line \in c : <<ModelPatterns[j].pattern, line>> \in SearchHits}}

(* A framework marker is recognised in a scanned source file or manifest. *)
FrameworkRecognised ==
    \/ \E c \in SourceContents : \E line \in c :
           \E needle \in {"import torch", "from torch", "import tensorflow",
                          "from tensorflow", "import jax", "from jax",
                          "from diffusers", "import diffusers",
                          "import transformers", "from transformers"} :
               <<needle, line>> \in SubstringHits
    \/ \E c \in ManifestContents : \E line \in c :
           \E needle \in {"torch", "tensorflow", "jax", "diffusers", "transformers"} :
               <<needle, line>> \in SubstringHits

(* torch, tensorflow or jax appears in the content of a manifest. *)
BaselineMarkers ==
    {needle \in {"torch", "tensorflow", "jax"} :
        \E c \in ManifestContents : \E line \in c : <<needle, line>> \in SubstringHits}

(* C15: with no signature match in any scanned file and no framework       *)
(* detected the estimator returns None, not a zero estimate (so on an      *)
(* empty project); every result it returns has base_vram > 0 and           *)
(* estimated_vram > 0.                                                     *)
C15_AbsentNotZero ==
    ReturnedEstimate =>
        /\ (MatchedSignatures = {} /\ ~FrameworkRecognised) => result = None
        /\ result # None =>
               /\ result[1].base_vram > 0
               /\ result[1].estimated_vram > 0

(* The empty project. *)
C15_Witness ==
    /\ ReturnedEstimate
    /\ args.project.py_files = <<>>
    /\ args.project.requirements = None
    /\ args.project.pyproject = None
    /\ result = None

(* C16: whenever a known ML framework marker is recognised in any scanned  *)
(* content (source file or manifest) the estimator returns a result.       *)
C16_FrameworkClueGivesResult ==
    (ReturnedEstimate /\ FrameworkRecognised) => result # None

(* C17: with no signature match but torch, tensorflow or jax in the        *)
(* content of requirements.txt or pyproject.toml the result has base_vram  *)
(* 4.0, estimated_vram 6.0 and the one detection "Generic ML Framework"    *)
(* with vram 4.0; the fallback is never applied when a signature matched.  *)
C17_GenericBaseline ==
    ReturnedEstimate =>
        /\ (MatchedSignatures = {} /\ BaselineMarkers # {}) =>
               /\ result # None
               /\ result[1].base_vram = 40
               /\ result[1].estimated_vram = 60
               /\ Len(result[1].detected_models) = 1
               /\ result[1].detected_models[1].model = "Generic ML Framework"
               /\ result[1].detected_models[1].vram = 40
        /\ (MatchedSignatures # {} /\ result # None) =>
               \A k \in 1..Len(result[1].detected_models) :
                   result[1].detected_models[k].model # "Generic ML Framework"

(* C18: when a signature matches, base_vram is the maximum baseline over   *)
(* all matches in all scanned files and estimated_vram is base_vram * 1.5  *)
(* rounded to one decimal.                                                 *)
C18_MaxBaselineWithBuffer ==
    (ReturnedEstimate /\ MatchedSignatures # {}) =>
        /\ result # None
        /\ \E m \in MatchedSignatures : m[2] = result[1].base_vram
        /\ \A m \in MatchedSignatures : m[2] <= result[1].base_vram
        /\ LET gap == result[1].estimated_vram * 10 - result[1].base_vram * 15
           IN  \/ (0 - 5 < gap /\ gap < 5)
               \/ ((gap = 5 \/ gap = 0 - 5) /\ result[1].estimated_vram % 2 = 0)

(* Signatures with different baselines match, the largest in a file read   *)
(* before one with a smaller match.                                        *)
C18_Witness ==
    /\ ReturnedEstimate
    /\ result # None
    /\ result[1].base_vram = 140
    /\ result[1].estimated_vram = 210
    /\ Len(args.project.py_files) = 2
    /\ args.project.py_files[1].readable
    /\ args.project.py_files[2].readable
    /\ ~StartsWithDot(args.project.py_files[1].name)
    /\ ~StartsWithDot(args.project.py_files[2].name)
    /\ "MODEL = 'meta-llama/Llama-2-7b-hf'" \in args.project.py_files[1].content
    /\ "MODEL = 'meta-llama/Llama-2-7b-hf'" \notin args.project.py_files[2].content
    /\ "# Stable Diffusion 1.5 demo" \in args.project.py_files[2].content

(* C19: detected_models has at most one entry per model name, every model  *)
(* name that matched appears exactly once, and the entry kept has the      *)
(* largest vram detected for that name.                                    *)
C19_OneDetectionPerModel ==
    (ReturnedEstimate /\ result # None) =>
        /\ \A i, j \in 1..Len(result[1].detected_models) :
               result[1].detected_models[i].model = result[1].detected_models[j].model
                   => i = j
        /\ \A m \in MatchedSignatures :
               \E i \in 1..Len(result[1].detected_models) :
                   /\ result[1].detected_models[i].model = m[1]
                   /\ result[1].detected_models[i].vram >= m[2]

(* The same model is detected in two source files. *)
C19_Witness ==
    /\ ReturnedEstimate
    /\ result # None
    /\ Len(args.project.py_files) = 2
    /\ \A k \in 1..2 :
           /\ args.project.py_files[k].readable
           /\ ~StartsWithDot(args.project.py_files[k].name)
           /\ "# Stable Diffusion 1.5 demo" \in args.project.py_files[k].content
    /\ \E i \in 1..Len(result[1].detected_models) :
           result[1].detected_models[i].model = "Stable Diffusion 1.5"

(* The framework a baseline marker stands for. *)
FrameworkOfMarker(needle) ==
    CASE needle = "torch" -> "PyTorch"
      [] needle = "tensorflow" -> "TensorFlow"
      [] needle = "jax" -> "JAX"

(* C20: whenever the generic baseline is applied because a framework       *)
(* marker appears in manifest content, the frameworks list contains that   *)
(* framework; the list is sorted and free of duplicates.                   *)
C20_BaselineFrameworkListed ==
    (ReturnedEstimate /\ result # None) =>
        /\ (\E k \in 1..Len(result[1].detected_models) :
                result[1].detected_models[k].model = "Generic ML Framework") =>
               \A needle \in BaselineMarkers :
                   \E i \in 1..Len(result[1].frameworks) :
                       result[1].frameworks[i] = FrameworkOfMarker(needle)
        /\ LET order == <<"Diffusers", "JAX", "PyTorch", "TensorFlow", "Transformers">>
               position(fw) == CHOOSE n \in 1..Len(order) : order[n] = fw
           IN  \A i, j \in 1..Len(result[1].frameworks) :
                   i < j => position(result[1].frameworks[i])
                                < position(result[1].frameworks[j])

(* The project with every unreadable file taken away. *)
WithoutUnreadable(project) ==
    [py_files |-> SelectSeq(project.py_files, LAMBDA f : f.readable),
     requirements |-> IF project.requirements # None /\ ~project.requirements[1].readable
                      THEN None
                      ELSE project.requirements,
     pyproject |-> IF project.pyproject # None /\ ~project.pyproject[1].readable
                   THEN None
                   ELSE project.pyproject]

(* The number of scanned files whose read raises. *)
UnreadableCount(project) ==
    Cardinality({k \in 1..Len(project.py_files) :
                    /\ ~StartsWithDot(project.py_files[k].name)
                    /\ ~project.py_files[k].readable})
    + (IF project.requirements # None /\ ~project.requirements[1].readable THEN 1 ELSE 0)
    + (IF project.pyproject # None /\ ~project.pyproject[1].readable THEN 1 ELSE 0)

(* C21: when reading one scanned file (.py file, requirements.txt or       *)
(* pyproject.toml) raises, the estimator still returns, and its result is  *)
(* the one of the same project with that file contributing nothing.        *)
C21_UnreadableFileContributesNothing ==
    (ReturnedEstimate /\ UnreadableCount(args.project) = 1) =>
        result = estimate_vram_usage_detailed(WithoutUnreadable(args.project))

(* The orders in which a walk can visit n files. *)
WalkOrders(n) ==
    {p \in [1..n -> 1..n] : \A i, j \in 1..n : p[i] = p[j] => i = j}

(* C22: the result (estimated_vram, base_vram, frameworks, detected_models *)
(* with entries, file attribution and order) does not depend on the order  *)
(* in which the directory walk visits the files.                           *)
C22_WalkOrderIndependent ==
    ReturnedEstimate =>
        \A p \in WalkOrders(Len(args.project.py_files)) :
            estimate_vram_usage_detailed(
                [args.project EXCEPT
                    !.py_files = AsList([k \in 1..Len(args.project.py_files) |->
                                            args.project.py_files[p[k]]])])
                = result

(* C23: the pricing catalogs are read-only: no call of                    *)
(* recommend_gpu_advanced or recommend_gpu changes BREV_INSTANCES or       *)
(* GPU_PRICING (same entries, same field values, same order as at start).  *)
C23_CatalogsReadOnly ==
    [][brev_instances' = brev_instances /\ gpu_pricing' = gpu_pricing]_vars

(* A call whose sorted list of fitting instances differs from the catalog  *)
(* order: the recommendation is not the first fitting entry of the catalog.*)
C23_Witness ==
    /\ ReturnedAdvanced
    /\ result.recommended # None
    /\ \E k \in 1..Len(brev_instances) :
           /\ brev_instances[k].total_vram_gib * 100 >= args.estimated_vram_gb * 12
           /\ \A j \in 1..(k - 1) :
                  brev_instances[j].total_vram_gib * 100 < args.estimated_vram_gb * 12
           /\ brev_instances[k] # result.recommended[1]
    /\ brev_instances \in Catalogs
    /\ gpu_pricing = GPU_PRICING

ReturnedInit ==
    pc = "init"

(* C24: init, run non-interactively on a git repository with an origin     *)
(* remote, generates launchable.yaml, prints the next steps and finishes   *)
(* successfully; it exits with the generation-failure code 3 only when     *)
(* building or writing the configuration fails.                            *)
C24_InitGeneratesLaunchableYaml ==
    (ReturnedInit /\ args.non_interactive /\ args.scan.git # None) =>
        /\ result.exit_code = EXIT_GENERATION_FAILURE => args.write_fails
        /\ ~args.write_fails =>
               /\ result.exit_code = EXIT_SUCCESS
               /\ result.launchable_yaml # None
               /\ \E k \in 1..Len(result.output) : result.output[k] = "next_steps"

ReturnedStartMode ==
    pc \in {"with_notebook", "with_webapp"}

(* The start section of the YAML rendered from the configuration. *)
RenderedStart ==
    YamlGet(YamlGet(render_yaml(config[1]), "runtime"), "start")

(* C25: after any non-empty sequence of with_notebook and with_webapp      *)
(* calls exactly one of runtime.start.notebook and runtime.start.webapp is *)
(* set, it is the mode of the last call with that call's command and port, *)
(* and render_yaml emits only that mode's section under start.             *)
C25_ExactlyOneStartMode ==
    /\ pc = "with_notebook" =>
           /\ config[1].runtime.start.webapp = None
           /\ config[1].runtime.start.notebook # None
           /\ config[1].runtime.start.notebook[1].command = args.command
           /\ config[1].runtime.start.notebook[1].port = args.port
           /\ YamlKeys(RenderedStart) = <<"notebook">>
           /\ YamlGet(YamlGet(RenderedStart, "notebook"), "command") = args.command
           /\ YamlGet(YamlGet(RenderedStart, "notebook"), "port") = args.port
    /\ pc = "with_webapp" =>
           /\ config[1].runtime.start.notebook = None
           /\ config[1].runtime.start.webapp # None
           /\ config[1].runtime.start.webapp[1].command = args.command
           /\ config[1].runtime.start.webapp[1].expose_port = args.port
           /\ YamlKeys(RenderedStart) = <<"webapp">>
           /\ YamlGet(YamlGet(RenderedStart, "webapp"), "command") = args.command
           /\ YamlGet(YamlGet(RenderedStart, "webapp"), "expose_port") = args.port
    /\ (pc = "render_yaml" /\ "port" \in DOMAIN args) =>
           /\ Len(YamlGet(YamlGet(result, "runtime"), "start")) = 1
           /\ (config[1].runtime.start.notebook = None)
                  # (config[1].runtime.start.webapp = None)

(* with_notebook has returned on a configuration that earlier calls had    *)
(* given two other ports.                                                  *)
C25_Witness ==
    /\ pc = "with_notebook"
    /\ Len(config[1].networking.ports) = 3
    /\ config[1].networking.ports[3] = args.port
    /\ YamlKeys(RenderedStart) = <<"notebook">>

(* C30: after any sequence of with_notebook and with_webapp calls on a     *)
(* configuration that started with no ports, networking.ports has no       *)
(* duplicates and holds only the port of the currently active start mode.  *)
C30_OnlyActivePort ==
    ReturnedStartMode =>
        /\ \A i, j \in 1..Len(config[1].networking.ports) :
               config[1].networking.ports[i] = config[1].networking.ports[j] => i = j
        /\ \A k \in 1..Len(config[1].networking.ports) :
               config[1].networking.ports[k] = args.port
        /\ YamlGet(YamlGet(render_yaml(config[1]), "networking"), "ports")
               = <<args.port>>

ReturnedCheckBrevCli ==
    pc = "check_brev_cli"

WhichBrevSucceeded ==
    args.which_brev.kind = "exit" /\ args.which_brev.returncode = 0

(* C26: check_brev_cli never raises when a subprocess times out or a       *)
(* binary is missing: it returns a BrevInfo whose available is True        *)
(* exactly when `which brev` returned exit code 0; `brev ls` is invoked    *)
(* only after `which brev` succeeded; when `which brev` fails or times out *)
(* instance_name and status stay None.                                     *)
C26_CheckBrevCliNeverRaises ==
    ReturnedCheckBrevCli =>
        /\ DOMAIN result.info = DOMAIN BrevInfo
        /\ result.info.available = WhichBrevSucceeded
        /\ (\E k \in 1..Len(result.invoked) : result.invoked[k] = "brev ls") =>
               /\ WhichBrevSucceeded
               /\ result.invoked = <<"which brev", "brev ls">>
        /\ ~WhichBrevSucceeded =>
               /\ result.info.instance_name = None
               /\ result.info.status = None

(* `which brev` does not find the binary while the GPU probe succeeded. *)
C26_Witness ==
    /\ ReturnedCheckBrevCli
    /\ args.which_brev = Exited(1, "")
    /\ args.smi_memory = TimeoutExpired
    /\ args.brev_ls.kind = "exit"
    /\ result.info.gpu_type = Some("gpu_1x_t4")
    /\ ~result.info.available

ReturnedDetectCurrentGpu ==
    pc = "detect_current_gpu"

(* C28: detect_current_gpu maps a name containing "a100" to gpu_1x_a100    *)
(* (gpu_1x_a100_80gb with "80gb"), "a10" without "a100" to gpu_1x_a10,     *)
(* "t4" to gpu_1x_t4, "v100" to gpu_1x_v100, "h100" to gpu_1x_h100; any    *)
(* other name, a non-zero exit code, a timeout or a missing binary gives   *)
(* "any".                                                                  *)
C28_GpuFamilyMapping ==
    ReturnedDetectCurrentGpu =>
        IF args.smi_name.kind # "exit" \/ args.smi_name.returncode # 0
        THEN result = "any"
        ELSE LET has(needle) == <<needle, args.smi_name.stdout>> \in GpuNameHits
             IN  /\ (has("a100") /\ has("80gb")) => result = "gpu_1x_a100_80gb"
                 /\ (has("a100") /\ ~has("80gb")) => result = "gpu_1x_a100"
                 /\ (has("a10") /\ ~has("a100")) => result = "gpu_1x_a10"
                 /\ has("t4") => result = "gpu_1x_t4"
                 /\ has("v100") => result = "gpu_1x_v100"
                 /\ has("h100") => result = "gpu_1x_h100"
                 /\ (\A needle \in {"a10", "a100", "t4", "v100", "h100"} : ~has(needle))
                        => result = "any"

(* C27: the price of the recommendation is monotone in the requirement:   *)
(* for requirements r1 <= r2 that both have an eligible instance,          *)
(* recommend_gpu_advanced(r1) recommends an instance priced no higher than *)
(* recommend_gpu_advanced(r2) and has total_options at least as large; the *)
(* same holds for recommend_gpu and its all_options.                       *)
C27_PriceMonotoneInRequirement ==
    /\ (pc = "recommend_gpu_advanced twice" /\ result.second.recommended # None) =>
           /\ result.first.recommended # None
           /\ result.first.recommended[1].price_per_hour
                  <= result.second.recommended[1].price_per_hour
           /\ result.first.total_options >= result.second.total_options
    /\ (pc = "recommend_gpu twice" /\ result.second.recommended # None) =>
           /\ result.first.recommended # None
           /\ result.first.info.cost_per_hour <= result.second.info.cost_per_hour
           /\ Len(result.first.all_options) >= Len(result.second.all_options)

(* The larger requirement rules out the cheapest offers: the smaller one   *)
(* has a strictly cheaper recommendation and strictly more options.        *)
C27_Witness ==
    /\ pc = "recommend_gpu_advanced twice"
    /\ args.r1 < args.r2
    /\ result.second.recommended # None
    /\ result.first.recommended # None
    /\ result.first.recommended[1].price_per_hour
           < result.second.recommended[1].price_per_hour
    /\ result.first.total_options > result.second.total_options

(* C29: whenever cost-estimate prints a "Switch to" recommendation with    *)
(* savings, the recommended GPU costs no more per hour than the current    *)
(* GPU, so the reported monthly and yearly savings are >= 0.               *)
C29_SwitchNeverCostsMore ==
    (pc = "cost_estimate" /\ result.outcome = "switch") =>
        /\ \A k \in 1..Len(gpu_pricing) :
               gpu_pricing[k].name = result.switch_to[1].name
                   => gpu_pricing[k].cost_per_hour <= result.current.cost_per_hour
        /\ result.switch_to[1].savings_monthly >= 0
        /\ result.switch_to[1].savings_yearly >= 0

====
